---- MODULE Spec2Model ----
(***************************************************************************)
(* Model of vulcanDB's dependency-ordered schema materialisation and       *)
(* referential loader:                                                     *)
(*   vulcan/parsers/dependency.py  determine_table_creation_order          *)
(*   vulcan/database/core.py       execute_queries                         *)
(*   vulcan/database/load.py       push_data_in_db, clean_row_data         *)
(*   vulcan/app.py                 run_pipeline                            *)
(***************************************************************************)
EXTENDS Integers, Sequences, FiniteSets, TLC

(***************************************************************************)
(* Bounds of the model.                                                    *)
(***************************************************************************)
\* most traits in one table_traits_list
MaxTraits == 2
\* most dependency entries declared by one table_traits_list, all traits together
MaxDeps == 2

(***************************************************************************)
(* Table names.  Python compares str lexicographically; Names lists the    *)
(* names of the model in ascending lexicographic order.                    *)
(***************************************************************************)
Names == <<"a", "b", "c">>

NameSet == {Names[i] : i \in 1..Len(Names)}

NameRank(n) == CHOOSE i \in 1..Len(Names) : Names[i] = n

\* sorted(list(S)) for a set S of table names
Sorted(S) == SelectSeq(Names, LAMBDA n : n \in S)

Range(s) == {s[i] : i \in 1..Len(s)}

\* every order in which a Python set with the elements of S can be enumerated
Enumerations(S) ==
    {e \in [1..Cardinality(S) -> S] : \A i, j \in 1..Cardinality(S) : i # j => e[i] # e[j]}

SeqsUpTo(S, n) == UNION {[1..k -> S] : k \in 0..n}

VARIABLES
    table_traits_list,   \* scheduler input: sequence of [name, dependencies]
    initial_table_list,  \* scheduler input: declared table list
    sched_pc,            \* "call" before the call, "done" after it
    sched_enum,          \* the enumeration order of all_potential_nodes in this run
    sched_result         \* what the call returned or raised

schedVars == <<table_traits_list, initial_table_list, sched_pc, sched_enum, sched_result>>

VARIABLES
    exec_db,             \* executor: the tables that exist (committed) in the database
    exec_db0,            \* the tables that existed when execute_queries was called
    table_order,         \* executor input: the creation order
    tables,              \* executor input: the registry, table name -> table_info
    exec_pc,             \* "call" before the call, "done" after it
    exec_result          \* what execute_queries returned or raised

execVars == <<exec_db, exec_db0, table_order, tables, exec_pc, exec_result>>

VARIABLES
    p_pc,                \* run_pipeline: position in the attempt
    attempt,             \* run_pipeline: the loop variable
    data_dict,           \* what generate_sql_queries returned in this attempt
    feedback_for_rerun,  \* TRUE when feedback from a failed attempt is set
    llm_can_continue,
    p_order,             \* table_order of this attempt
    p_tables,            \* tables_dict_from_graph of this attempt
    p_db,                \* the tables that exist in the database at db_uri
    p_ddl_log,           \* every DDL statement sent to the database in this run
    p_error,             \* the exception run_pipeline raised
    final_validation_passed

pipeVars == <<p_pc, attempt, data_dict, feedback_for_rerun, llm_can_continue, p_order,
              p_tables, p_db, p_ddl_log, p_error, final_validation_passed>>

VARIABLES
    l_cfg,               \* loader inputs: reflected schema, table_order, dataframe.columns, map_dict
    dataframe,           \* loader input: the source rows
    l_pc,                \* "begin", "tables", "commit", "except" or "done"
    l_idx,               \* index of the source row being processed
    l_attempt,           \* the attempt loop variable
    cleaned_row,         \* the cleaned row, <<>> while it is None
    l_ti,                \* position in table_order within the attempt
    l_exc,               \* the exception caught by the try statement
    db,                  \* table contents as the loader's connection sees them
    db_committed,        \* committed table contents
    db_seq,              \* last value each table's primary-key sequence handed out
    txn_open,            \* number of transactions begun and not yet ended
    l_snapshot,          \* history: db when the current attempt began
    l_last,              \* history: how the last transaction ended, and where it failed
    l_rows,              \* history: per source row, its outcome, attempts and errors
    l_log,               \* history: the insert statements executed
    l_visited,           \* history: the tables the current attempt has visited, in order
    l_result             \* what push_data_in_db returned, once it has returned

loadVars == <<l_cfg, dataframe, l_pc, l_idx, l_attempt, cleaned_row, l_ti, l_exc, db,
              db_committed, db_seq, txn_open, l_snapshot, l_last, l_rows, l_log,
              l_visited, l_result>>

VARIABLES
    clean_pc,            \* clean_row_data on its own: "call" before the call, "done" after it
    clean_row,           \* the dict passed as row_data
    clean_error,         \* the error text passed as error_msg
    clean_result         \* the dict returned

cleanVars == <<clean_pc, clean_row, clean_error, clean_result>>

VARIABLES
    g_pc,                \* the graph builder on its own: "build", "rebuild" or "done"
    g_queries,           \* the statements passed as queries
    g_first,             \* what the first call returned
    g_second             \* what the call repeated with the same statements returned

graphVars == <<g_pc, g_queries, g_first, g_second>>

vars == <<schedVars, execVars, pipeVars, loadVars, cleanVars, graphVars>>

(***************************************************************************)
(* determine_table_creation_order                                          *)
(***************************************************************************)
NoResult == [kind |-> "none", order |-> <<>>, missing |-> {}, extra |-> {}, problem |-> {}]

\* all_potential_nodes: every traits.name and every dep.parent_table_name
all_potential_nodes(traits_list) ==
    {traits_list[i].name : i \in 1..Len(traits_list)}
    \cup UNION {Range(traits_list[i].dependencies) : i \in 1..Len(traits_list)}

\* the (parent, child) pairs in the order the two nested loops visit them
RECURSIVE DependencyPairs(_)
DependencyPairs(traits_list) ==
    IF traits_list = <<>> THEN <<>>
    ELSE LET traits == Head(traits_list)
         IN  [i \in 1..Len(traits.dependencies) |->
                 [parent_table |-> traits.dependencies[i], child_table |-> traits.name]]
             \o DependencyPairs(Tail(traits_list))

\* adj and in_degree after the setdefault calls
EmptyGraph(nodes) ==
    [adj |-> [n \in nodes |-> {}], in_degree |-> [n \in nodes |-> 0]]

\* variant: a dependency of a table on itself is not recorded
AddEdgeSkipSelf(g, parent_table, child_table) ==
    IF child_table \notin g.adj[parent_table] /\ child_table # parent_table
    THEN [adj |-> [g.adj EXCEPT ![parent_table] = @ \cup {child_table}],
          in_degree |-> [g.in_degree EXCEPT ![child_table] = @ + 1]]
    ELSE g

\* variant: in_degree counts every declaration, also a repeated one
AddEdgeCountAll(g, parent_table, child_table) ==
    [adj |-> [g.adj EXCEPT ![parent_table] = @ \cup {child_table}],
     in_degree |-> [g.in_degree EXCEPT ![child_table] = @ + 1]]

\* add the edge parent -> child if not already present
AddEdge(g, parent_table, child_table) ==
    IF child_table \notin g.adj[parent_table]
    THEN [adj |-> [g.adj EXCEPT ![parent_table] = @ \cup {child_table}],
          in_degree |-> [g.in_degree EXCEPT ![child_table] = @ + 1]]
    ELSE g

RECURSIVE BuildGraph(_, _)
BuildGraph(g, pairs) ==
    IF pairs = <<>> THEN g
    ELSE BuildGraph(AddEdge(g, Head(pairs).parent_table, Head(pairs).child_table), Tail(pairs))

\* the queue seeded from the enumeration of all_potential_nodes
SeedQueue(enum, in_degree) == SelectSeq(enum, LAMBDA n : in_degree[n] = 0)

\* the inner for loop over sorted(adj[current_table])
RECURSIVE VisitDependents(_, _, _)
VisitDependents(dependents, in_degree, queue) ==
    IF dependents = <<>> THEN [in_degree |-> in_degree, queue |-> queue]
    ELSE LET d == Head(dependents)
             deg == [in_degree EXCEPT ![d] = @ - 1]
         IN  VisitDependents(Tail(dependents), deg,
                             IF deg[d] = 0 THEN Append(queue, d) ELSE queue)

\* the while loop of Kahn's algorithm
RECURSIVE KahnLoop(_, _, _, _)
KahnLoop(queue, creation_order, in_degree, adj) ==
    IF queue = <<>> THEN creation_order
    ELSE LET current_table == Head(queue)
             v == VisitDependents(Sorted(adj[current_table]), in_degree, Tail(queue))
         IN  KahnLoop(v.queue, Append(creation_order, current_table), v.in_degree, adj)

determine_table_creation_order(traits_list, table_list, enum) ==
    IF traits_list = <<>>
    THEN IF table_list = <<>>
         THEN [NoResult EXCEPT !.kind = "order"]
         ELSE [NoResult EXCEPT !.kind = "empty_traits_error"]
    ELSE LET nodes == all_potential_nodes(traits_list)
             expected_tables_set == Range(table_list)
         IN  IF nodes # expected_tables_set
             THEN [NoResult EXCEPT !.kind = "mismatch_error",
                                   !.missing = expected_tables_set \ nodes,
                                   !.extra = nodes \ expected_tables_set]
             ELSE LET g == BuildGraph(EmptyGraph(nodes), DependencyPairs(traits_list))
                      creation_order ==
                          KahnLoop(SeedQueue(enum, g.in_degree), <<>>, g.in_degree, g.adj)
                  IN  IF Len(creation_order) # Cardinality(nodes)
                      THEN [NoResult EXCEPT !.kind = "cycle_error",
                                            !.problem = nodes \ Range(creation_order)]
                      ELSE [NoResult EXCEPT !.kind = "order", !.order = creation_order]

(***************************************************************************)
(* Scheduler specification: the inputs are drawn in Init, the call is one  *)
(* action.  The enumeration order of a Python set of str depends on the    *)
(* per-process hash seed, so each run picks one.                           *)
(***************************************************************************)
DependencyLists == SeqsUpTo(NameSet, MaxDeps)

TraitsValues == [name : NameSet, dependencies : DependencyLists]

\* the lists of exactly k traits that declare at most d dependencies in all
RECURSIVE TraitsListsOf(_, _)
TraitsListsOf(k, d) ==
    IF k = 0
    THEN {<<>>}
    ELSE UNION {{Append(tl, tr) : tl \in TraitsListsOf(k - 1, d - Len(tr.dependencies))} :
                   tr \in {t \in TraitsValues : Len(t.dependencies) <= d}}

TraitsLists == UNION {TraitsListsOf(k, MaxDeps) : k \in 0..MaxTraits}

\* declared table lists: every set of names, listed in ascending order
TableLists == {Sorted(S) : S \in SUBSET NameSet}

SchedInit ==
    /\ table_traits_list \in TraitsLists
    /\ initial_table_list \in TableLists
    /\ sched_pc = "call"
    /\ sched_enum = <<>>
    /\ sched_result = NoResult

SchedCall ==
    /\ UNCHANGED <<execVars, pipeVars, loadVars, cleanVars, graphVars>>
    /\ sched_pc = "call"
    /\ \E enum \in Enumerations(all_potential_nodes(table_traits_list)) :
          /\ sched_enum' = enum
          /\ sched_result' =
                determine_table_creation_order(table_traits_list, initial_table_list, enum)
    /\ sched_pc' = "done"
    /\ UNCHANGED <<table_traits_list, initial_table_list>>

SchedIdle ==
    /\ table_traits_list = <<>>
    /\ initial_table_list = <<>>
    /\ sched_pc = "idle"
    /\ sched_enum = <<>>
    /\ sched_result = NoResult

SchedNext == SchedCall

(***************************************************************************)
(* execute_queries.  The database is PostgreSQL (initialize_database's     *)
(* default and the only type run_pipeline and populate_database use), so   *)
(* DDL is transactional.  A statement is kept abstract: the table it       *)
(* creates, the tables it references and whether the database accepts its  *)
(* text.                                                                   *)
(***************************************************************************)
MaxFks == 1

Queries == {q \in [name : NameSet, foreign_keys : SUBSET NameSet, accepted : BOOLEAN] :
               Cardinality(q.foreign_keys) <= MaxFks}

\* parse_sql_query: the table_info of a statement (columns are not modelled)
parse_sql_query(query) ==
    [query |-> query, name |-> query.name, foreign_keys |-> query.foreign_keys]

\* the registry create_query_dependent_graph returns: a later statement of the
\* same table name replaces an earlier one
RECURSIVE TablesOf(_, _)
TablesOf(queries, acc) ==
    IF queries = <<>> THEN acc
    ELSE LET table_info == parse_sql_query(Head(queries))
         IN  TablesOf(Tail(queries),
                      [n \in DOMAIN acc \cup {table_info.name} |->
                          IF n = table_info.name THEN table_info ELSE acc[n]])

create_query_dependent_graph_tables(queries) == TablesOf(queries, <<>>)

\* conn.execute(text(query)) on a CREATE TABLE statement inside the transaction
ExecuteDDL(query, existing) ==
    IF ~query.accepted
    THEN [error |-> "syntax error", existing |-> existing]
    ELSE IF query.name \in existing
    THEN [error |-> "relation already exists", existing |-> existing]
    ELSE IF \E p \in query.foreign_keys : p \notin existing /\ p # query.name
    THEN [error |-> "relation does not exist", existing |-> existing]
    ELSE [error |-> "", existing |-> existing \cup {query.name}]

\* the for loop: ends normally, by a KeyError of tables[table_name] or by the
\* SQLAlchemyError of a statement; sent lists the statements handed to the
\* database
RECURSIVE RunStatements(_, _, _, _)
RunStatements(todo, registry, txn, sent) ==
    IF todo = <<>>
    THEN [status |-> "ok", txn |-> txn, at |-> "", message |-> "", sent |-> sent]
    ELSE LET table_name == Head(todo)
         IN  IF table_name \notin DOMAIN registry
             THEN [status |-> "KeyError", txn |-> txn, at |-> table_name,
                   message |-> "", sent |-> sent]
             ELSE LET r == ExecuteDDL(registry[table_name].query, txn)
                  IN  IF r.error # ""
                      THEN [status |-> "SQLAlchemyError", txn |-> txn, at |-> table_name,
                            message |-> r.error, sent |-> Append(sent, table_name)]
                      ELSE RunStatements(Tail(todo), registry, r.existing,
                                         Append(sent, table_name))

\* transaction.commit(): the transaction's tables become the database's
transaction_commit(before, txn) == txn

\* variant: the error handler keeps what the transaction created
transaction_rollback_keeps(before, txn) == txn

\* transaction.rollback(): the database is as it was before conn.begin()
transaction_rollback(before, txn) == before

\* leaving "with engine.connect() as conn" by an exception closes the
\* connection, which rolls back the transaction still in progress
connection_close(before, txn) == before

\* the second element of the returned tuple: None or the exception e, which
\* carries the database's message
NoError == [message |-> ""]

execute_queries(before, order, registry) ==
    LET run == RunStatements(order, registry, before, <<>>)
    IN  CASE run.status = "ok" ->
               [db |-> transaction_commit(before, run.txn), raised |-> "",
                value |-> [success |-> TRUE, error |-> NoError], run |-> run]
          [] run.status = "SQLAlchemyError" ->
               [db |-> transaction_rollback(before, run.txn), raised |-> "",
                value |-> [success |-> FALSE, error |-> [message |-> run.message]],
                run |-> run]
          [] run.status = "KeyError" ->
               [db |-> connection_close(before, run.txn), raised |-> "KeyError",
                value |-> [success |-> FALSE, error |-> NoError], run |-> run]

NoExecResult ==
    [db |-> {}, raised |-> "", value |-> [success |-> FALSE, error |-> NoError],
     run |-> [status |-> "none", txn |-> {}, at |-> "", message |-> "", sent |-> <<>>]]

\* registries as create_query_dependent_graph builds them: keyed by the name of
\* the table the statement creates
Registries ==
    UNION {{f \in [S -> Queries] : \A n \in S : f[n].name = n} : S \in SUBSET NameSet}

TableInfos(f) == [n \in DOMAIN f |-> parse_sql_query(f[n])]

ExecInit ==
    /\ exec_db0 \in {S \in SUBSET NameSet : Cardinality(S) <= 1}
    /\ exec_db = exec_db0
    /\ table_order \in UNION {Enumerations(S) : S \in SUBSET NameSet}
    /\ tables \in {TableInfos(f) : f \in Registries}
    /\ exec_pc = "call"
    /\ exec_result = NoExecResult

ExecIdle ==
    /\ exec_db0 = {}
    /\ exec_db = {}
    /\ table_order = <<>>
    /\ tables = <<>>
    /\ exec_pc = "idle"
    /\ exec_result = NoExecResult

ExecCall ==
    /\ UNCHANGED <<schedVars, pipeVars, loadVars, cleanVars, graphVars>>
    /\ exec_pc = "call"
    /\ exec_result' = execute_queries(exec_db, table_order, tables)
    /\ exec_db' = exec_result'.db
    /\ exec_pc' = "done"
    /\ UNCHANGED <<exec_db0, table_order, tables>>

ExecNext == ExecCall

(***************************************************************************)
(* run_pipeline.  generate_sql_queries, validate_with_llm and              *)
(* validate_content are external: their results are drawn from bounded     *)
(* sets.  Every attempt connects to the same database (db_uri).            *)
(***************************************************************************)
max_attempts == 2

PipeNames == {Names[1], Names[2]}

\* traits lists over PipeNames, at most one trait per table and one dependency per trait
PipeTraits ==
    UNION {{[i \in 1..Cardinality(S) |->
                [name |-> Sorted(S)[i], dependencies |-> d[Sorted(S)[i]]]] :
              d \in [S -> SeqsUpTo(PipeNames, 1)]} : S \in SUBSET PipeNames}

\* statement lists over PipeNames, at most one statement per table
PipeQueries ==
    UNION {{[i \in 1..Cardinality(S) |-> f[Sorted(S)[i]]] :
              f \in {g \in [S -> Queries] :
                        \A n \in S : g[n].name = n /\ g[n].foreign_keys \subseteq PipeNames}} :
           S \in SUBSET PipeNames}

\* what generate_sql_queries can return; without the table_traits and
\* table_list keys their values are never read
GenDicts ==
    [queries : PipeQueries, has_traits : {TRUE}, table_traits : PipeTraits,
     table_list : {Sorted(S) : S \in SUBSET PipeNames}]
    \cup [queries : PipeQueries, has_traits : {FALSE}, table_traits : {<<>>},
          table_list : {<<>>}]

NoDict == [queries |-> <<>>, has_traits |-> FALSE, table_traits |-> <<>>, table_list |-> <<>>]

PipeInit ==
    /\ p_pc = "generate"
    /\ attempt = 0
    /\ data_dict = NoDict
    /\ feedback_for_rerun = FALSE
    /\ llm_can_continue = TRUE
    /\ p_order = <<>>
    /\ p_tables = <<>>
    /\ p_db = {}
    /\ p_ddl_log = <<>>
    /\ p_error = NoResult
    /\ final_validation_passed = FALSE

PipeIdle ==
    /\ p_pc = "idle"
    /\ attempt = 0
    /\ data_dict = NoDict
    /\ feedback_for_rerun = FALSE
    /\ llm_can_continue = TRUE
    /\ p_order = <<>>
    /\ p_tables = <<>>
    /\ p_db = {}
    /\ p_ddl_log = <<>>
    /\ p_error = NoResult
    /\ final_validation_passed = FALSE

\* variant: a failed attempt is always followed by another one
RetryOrRaiseAlwaysRetries(kind) ==
    /\ attempt' = attempt + 1
    /\ feedback_for_rerun' = TRUE
    /\ p_pc' = "generate"
    /\ p_error' = p_error

\* "continue" with feedback when an attempt is left, otherwise raise
RetryOrRaise(kind) ==
    IF attempt < max_attempts - 1
    THEN /\ attempt' = attempt + 1
         /\ feedback_for_rerun' = TRUE
         /\ p_pc' = "generate"
         /\ p_error' = p_error
    ELSE /\ p_pc' = "raised"
         /\ p_error' = [NoResult EXCEPT !.kind = kind]
         /\ UNCHANGED <<attempt, feedback_for_rerun>>

\* generate_sql_queries and the two checks of its result
PGenerate ==
    /\ UNCHANGED <<schedVars, execVars, loadVars, cleanVars, graphVars>>
    /\ p_pc = "generate"
    /\ \E d \in GenDicts :
          /\ data_dict' = d
          /\ IF d.queries = <<>>
             THEN RetryOrRaise("no_queries") /\ UNCHANGED llm_can_continue
             ELSE IF ~d.has_traits
             THEN RetryOrRaise("traits_missing") /\ UNCHANGED llm_can_continue
             ELSE /\ llm_can_continue' = TRUE
                  /\ p_pc' = IF attempt = 0 THEN "llm_validate" ELSE "schedule"
                  /\ UNCHANGED <<attempt, feedback_for_rerun, p_error>>
    /\ UNCHANGED <<p_order, p_tables, p_db, p_ddl_log, final_validation_passed>>

\* validate_with_llm, on the first attempt only
PLlmValidate ==
    /\ UNCHANGED <<schedVars, execVars, loadVars, cleanVars, graphVars>>
    /\ p_pc = "llm_validate"
    /\ \E continue_processing \in BOOLEAN : llm_can_continue' = continue_processing
    /\ p_pc' = "schedule"
    /\ UNCHANGED <<attempt, data_dict, feedback_for_rerun, p_order, p_tables, p_db,
                   p_ddl_log, p_error, final_validation_passed>>

\* create_query_dependent_graph and determine_table_creation_order; the
\* ValueError of the scheduler is not caught
PSchedule ==
    /\ UNCHANGED <<schedVars, execVars, loadVars, cleanVars, graphVars>>
    /\ p_pc = "schedule"
    /\ p_tables' = create_query_dependent_graph_tables(data_dict.queries)
    /\ \E enum \in Enumerations(all_potential_nodes(data_dict.table_traits)) :
          LET r == determine_table_creation_order(data_dict.table_traits,
                                                  data_dict.table_list, enum)
          IN  IF r.kind = "order"
              THEN p_order' = r.order /\ p_pc' = "execute" /\ UNCHANGED p_error
              ELSE p_pc' = "raised" /\ p_error' = r /\ UNCHANGED p_order
    /\ UNCHANGED <<attempt, data_dict, feedback_for_rerun, llm_can_continue, p_db,
                   p_ddl_log, final_validation_passed>>

\* execute_queries and the handling of its result
PExecute ==
    /\ UNCHANGED <<schedVars, execVars, loadVars, cleanVars, graphVars>>
    /\ p_pc = "execute"
    /\ LET r == execute_queries(p_db, p_order, p_tables)
       IN  /\ p_db' = r.db
           /\ p_ddl_log' = p_ddl_log \o r.run.sent
           /\ IF r.raised # ""
              THEN /\ p_pc' = "raised"
                   /\ p_error' = [NoResult EXCEPT !.kind = r.raised]
                   /\ UNCHANGED <<attempt, feedback_for_rerun>>
              ELSE IF ~r.value.success
              THEN RetryOrRaise("table_creation_failed")
              ELSE p_pc' = "validate_content" /\ UNCHANGED <<attempt, feedback_for_rerun, p_error>>
    /\ UNCHANGED <<data_dict, llm_can_continue, p_order, p_tables, final_validation_passed>>

\* validate_content and the decision on the attempt
PValidateContent ==
    /\ UNCHANGED <<schedVars, execVars, loadVars, cleanVars, graphVars>>
    /\ p_pc = "validate_content"
    /\ \E deterministic_validation_passed \in BOOLEAN :
          IF llm_can_continue /\ deterministic_validation_passed
          THEN /\ final_validation_passed' = TRUE
               /\ p_pc' = "load"
               /\ UNCHANGED <<attempt, feedback_for_rerun, p_error>>
          ELSE RetryOrRaise("pipeline_failed") /\ UNCHANGED final_validation_passed
    /\ UNCHANGED <<data_dict, llm_can_continue, p_order, p_tables, p_db, p_ddl_log>>

\* push_data_in_db is called
PLoad ==
    /\ UNCHANGED <<schedVars, execVars, loadVars, cleanVars, graphVars>>
    /\ p_pc = "load"
    /\ final_validation_passed
    /\ p_pc' = "loading"
    /\ UNCHANGED <<attempt, data_dict, feedback_for_rerun, llm_can_continue, p_order,
                   p_tables, p_db, p_ddl_log, p_error, final_validation_passed>>

PipeNext ==
    \/ PGenerate
    \/ PLlmValidate
    \/ PSchedule
    \/ PExecute
    \/ PValidateContent
    \/ PLoad

(***************************************************************************)
(* push_data_in_db: values, reflected schema and the database.             *)
(*                                                                         *)
(* A value is None, an int or a str.  A column of the reflected schema     *)
(* has a name, a type, the primary_key / autoincrement / unique /          *)
(* nullable flags and the parent table its foreign key references ("" for  *)
(* none).  A table's content is the sequence of its rows.                  *)
(***************************************************************************)
MaxRows == 2
max_retries == 2

None == [ty |-> "none", n |-> 0, s |-> ""]

Num(i) == [ty |-> "int", n |-> i, s |-> ""]

Str(x) == [ty |-> "str", n |-> 0, s |-> x]

\* stands for "evaluating this subscript raised KeyError"
KeyErrorValue == [ty |-> "KeyError", n |-> 0, s |-> ""]

\* Python truth value of a cell
Truthy(v) == (v.ty = "int" /\ v.n # 0) \/ (v.ty = "str" /\ v.s # "")

NoExc == [kind |-> "", msg |-> "", column |-> ""]

Exc(kind, msg) == [kind |-> kind, msg |-> msg, column |-> ""]

Col(name, type, primary_key, autoincrement, unique, nullable, fk) ==
    [name |-> name, type |-> type, primary_key |-> primary_key,
     autoincrement |-> autoincrement, unique |-> unique, nullable |-> nullable, fk |-> fk]

\* artists <- albums <- tracks; the foreign-key columns are named by the caller
MusicSchema(artist_fk, album_fk) ==
    [t \in {"artists", "albums", "tracks"} |->
        CASE t = "artists" ->
               <<Col("artist_id", "integer", TRUE, TRUE, FALSE, FALSE, ""),
                 Col("artist_name", "text", FALSE, FALSE, TRUE, FALSE, "")>>
          [] t = "albums" ->
               <<Col("album_id", "integer", TRUE, TRUE, FALSE, FALSE, ""),
                 Col(artist_fk, "integer", FALSE, FALSE, FALSE, TRUE, "artists"),
                 Col("album_title", "text", FALSE, FALSE, TRUE, FALSE, "")>>
          [] t = "tracks" ->
               <<Col("track_id", "integer", TRUE, TRUE, FALSE, FALSE, ""),
                 Col(album_fk, "integer", FALSE, FALSE, FALSE, TRUE, "albums"),
                 Col("track_name", "text", FALSE, FALSE, FALSE, FALSE, "")>>]

MusicCells ==
    [c \in {"artist_name", "album_title", "title"} |->
        CASE c = "artist_name" -> {Str("A"), Str("B"), None}
          [] c = "album_title" -> {Str("X"), Str("Y"), None}
          [] c = "title" -> {Str("T"), None}]

\* the source has the three names only; the foreign-key columns have no field
ScenarioNames ==
    [schema |-> MusicSchema("artist_id", "album_id"),
     table_order |-> <<"artists", "albums", "tracks">>,
     columns |-> {"artist_name", "album_title", "title"},
     map_dict |-> [c \in {"track_name"} |-> "title"],
     cells |-> MusicCells]

\* the source also has (empty) fields for the foreign-key columns
ScenarioRefs ==
    [schema |-> MusicSchema("artist_ref", "album_ref"),
     table_order |-> <<"artists", "albums", "tracks">>,
     columns |-> {"artist_name", "album_title", "title", "artist_ref", "album_ref"},
     map_dict |-> [c \in {"track_name"} |-> "title"],
     cells |-> [c \in {"artist_name", "album_title", "title", "artist_ref", "album_ref"} |->
                   IF c \in DOMAIN MusicCells THEN MusicCells[c] ELSE {None}]]

\* customers <- orders; customers has no unique column, orders.amount is numeric
SalesSchema(customer_fk) ==
    [t \in {"customers", "orders"} |->
        CASE t = "customers" ->
               <<Col("customer_id", "integer", TRUE, TRUE, FALSE, FALSE, ""),
                 Col("city", "text", FALSE, FALSE, FALSE, FALSE, "")>>
          [] t = "orders" ->
               <<Col("order_id", "integer", TRUE, TRUE, FALSE, FALSE, ""),
                 Col(customer_fk, "integer", FALSE, FALSE, FALSE, TRUE, "customers"),
                 Col("amount", "numeric", FALSE, FALSE, FALSE, FALSE, "")>>]

SalesCells ==
    [c \in {"city", "amount"} |->
        CASE c = "city" -> {Str("P"), None}
          [] c = "amount" -> {Str("1,234"), Num(5)}]

\* the source has city and amount only; orders.customer_id has no field
ScenarioSales ==
    [schema |-> SalesSchema("customer_id"),
     table_order |-> <<"customers", "orders">>,
     columns |-> {"city", "amount"},
     map_dict |-> <<>>,
     cells |-> SalesCells]

\* the source also has an (empty) field for the foreign-key column
ScenarioSalesRefs ==
    [schema |-> SalesSchema("customer_ref"),
     table_order |-> <<"customers", "orders">>,
     columns |-> {"city", "amount", "customer_ref"},
     map_dict |-> <<>>,
     cells |-> [c \in {"city", "amount", "customer_ref"} |->
                   IF c \in DOMAIN SalesCells THEN SalesCells[c] ELSE {None}]]

\* the source has an (empty) field named like the primary key of customers
ScenarioSalesIds ==
    [schema |-> SalesSchema("customer_ref"),
     table_order |-> <<"customers", "orders">>,
     columns |-> {"city", "amount", "customer_id"},
     map_dict |-> <<>>,
     cells |-> [c \in {"city", "amount", "customer_id"} |->
                   IF c \in DOMAIN SalesCells THEN SalesCells[c] ELSE {None}]]

\* regions <- shops; the primary key of regions is not generated, and the
\* source has a field for it as well as for the unique region_name
RegionsSchema ==
    [t \in {"regions", "shops"} |->
        CASE t = "regions" ->
               <<Col("region_id", "integer", TRUE, FALSE, FALSE, FALSE, ""),
                 Col("region_name", "text", FALSE, FALSE, TRUE, FALSE, "")>>
          [] t = "shops" ->
               <<Col("shop_id", "integer", TRUE, TRUE, FALSE, FALSE, ""),
                 Col("region_ref", "integer", FALSE, FALSE, FALSE, TRUE, "regions"),
                 Col("shop_name", "text", FALSE, FALSE, FALSE, FALSE, "")>>]

ScenarioRegions ==
    [schema |-> RegionsSchema,
     table_order |-> <<"regions", "shops">>,
     columns |-> {"region_id", "region_name", "shop_name"},
     map_dict |-> <<>>,
     cells |-> [c \in {"region_id", "region_name", "shop_name"} |->
                   CASE c = "region_id" -> {Num(0), Num(7), None}
                     [] c = "region_name" -> {Str("N"), Str("S")}
                     [] c = "shop_name" -> {Str("s")}]]

Scenarios ==
    {ScenarioNames, ScenarioRefs, ScenarioSales, ScenarioSalesRefs, ScenarioSalesIds,
     ScenarioRegions}

\* map_dict.get(name, name)
MapGet(cfg, name) == IF name \in DOMAIN cfg.map_dict THEN cfg.map_dict[name] ELSE name

ColNames(cols) == {cols[i].name : i \in 1..Len(cols)}

ColOf(cols, name) == cols[CHOOSE i \in 1..Len(cols) : cols[i].name = name]

\* list(tbl.primary_key.columns)
pk_cols(cfg, t) == SelectSeq(cfg.schema[t], LAMBDA c : c.primary_key)

get_single_unique_cols(cfg, t) == SelectSeq(cfg.schema[t], LAMBDA c : c.unique)

\* single_uniques_in_csv
unique_cols_in_csv(cfg, t) ==
    SelectSeq(get_single_unique_cols(cfg, t), LAMBDA c : MapGet(cfg, c.name) \in cfg.columns)

\* the db columns of col_map: the autoincrement primary key is skipped
col_map(cfg, t) ==
    SelectSeq(cfg.schema[t], LAMBDA c : ~(c.autoincrement /\ c.primary_key))

\* cleaned_row[csv_col] if cleaned_row else row_data.get(csv_col)
RowValue(ctx, csv_col) ==
    IF DOMAIN ctx.cleaned_row # {}
    THEN IF csv_col \in DOMAIN ctx.cleaned_row THEN ctx.cleaned_row[csv_col]
         ELSE KeyErrorValue
    ELSE IF csv_col \in DOMAIN ctx.row_data THEN ctx.row_data[csv_col] ELSE None

HasKeyError(data) == \E c \in DOMAIN data : data[c] = KeyErrorValue

\* the strings PostgreSQL accepts as a number
NumericTexts == {"1234"}

\* the number a numeric text denotes
NumericValue(x) == IF x = "1234" THEN 1234 ELSE 0

\* the value PostgreSQL stores in a column for a bound parameter: text that
\* reads as a number is converted when the column is not a text column
Stored(col, v) ==
    IF col.type # "text" /\ v.ty = "str" /\ v.s \in NumericTexts
    THEN Num(NumericValue(v.s))
    ELSE v

\* index of the first row with row[col] = val, 0 if there is none (fetchone)
FirstMatch(rows, col, val) ==
    IF \E i \in 1..Len(rows) : rows[i][col] = val
    THEN CHOOSE i \in 1..Len(rows) :
            /\ rows[i][col] = val
            /\ \A j \in 1..(i - 1) : rows[j][col] # val
    ELSE 0

\* the error PostgreSQL raises for the new row, NoExc if it accepts it
InsertError(cfg, content, t, row) ==
    LET cols == cfg.schema[t]
        pk == pk_cols(cfg, t)
    IN  IF \E i \in 1..Len(cols) :
              /\ cols[i].type # "text"
              /\ row[cols[i].name].ty = "str"
              /\ row[cols[i].name].s \notin NumericTexts
        THEN LET i == CHOOSE i \in 1..Len(cols) :
                         /\ cols[i].type # "text"
                         /\ row[cols[i].name].ty = "str"
                         /\ row[cols[i].name].s \notin NumericTexts
             IN  Exc("DataError", IF cols[i].type = "numeric"
                                  THEN "invalid input syntax for type numeric"
                                  ELSE "invalid input syntax for type integer")
        ELSE IF \E i \in 1..Len(cols) :
                   (~cols[i].nullable \/ cols[i].primary_key) /\ row[cols[i].name] = None
        THEN Exc("IntegrityError", "null value in column violates not-null constraint")
        ELSE IF \/ \E i \in 1..Len(cols), k \in 1..Len(content[t]) :
                      cols[i].unique /\ row[cols[i].name] # None
                      /\ content[t][k][cols[i].name] = row[cols[i].name]
                \/ /\ pk # <<>>
                   /\ \E k \in 1..Len(content[t]) :
                         \A i \in 1..Len(pk) : content[t][k][pk[i].name] = row[pk[i].name]
        THEN Exc("IntegrityError", "duplicate key value violates unique constraint")
        ELSE IF \E i \in 1..Len(cols) :
                   /\ cols[i].fk # ""
                   /\ row[cols[i].name] # None
                   /\ \/ cols[i].fk \notin DOMAIN content
                      \/ Len(pk_cols(cfg, cols[i].fk)) # 1
                      \/ FirstMatch(content[cols[i].fk], pk_cols(cfg, cols[i].fk)[1].name,
                                    row[cols[i].name]) = 0
        THEN Exc("IntegrityError", "violates foreign key constraint")
        ELSE NoExc

\* connection.execute(tbl.insert(), data).  st is [db, seq, exc, log, pk]; by
\* and value name the key the loader matched on ("" for none).  A column that
\* is not in data gets its default: the next sequence value or NULL.
DbInsert(cfg, ctx, st, t, data, by, value) ==
    LET cols == cfg.schema[t]
        pk == pk_cols(cfg, t)
        uses_seq == \E i \in 1..Len(cols) :
                        cols[i].autoincrement /\ cols[i].name \notin DOMAIN data
        next == st.seq[t] + 1
        row == [c \in ColNames(cols) |->
                   IF c \in DOMAIN data THEN Stored(ColOf(cols, c), data[c])
                   ELSE IF ColOf(cols, c).autoincrement THEN Num(next) ELSE None]
        exc == InsertError(cfg, st.db, t, row)
        event == [table |-> t, by |-> by, value |-> value,
                  present |-> by # "" /\ FirstMatch(st.db[t], by, value) # 0,
                  ok |-> exc = NoExc, row |-> row, state |-> "pending",
                  idx |-> ctx.idx, attempt |-> ctx.attempt]
    IN  [db |-> IF exc = NoExc THEN [st.db EXCEPT ![t] = Append(@, row)] ELSE st.db,
         seq |-> IF uses_seq THEN [st.seq EXCEPT ![t] = next] ELSE st.seq,
         exc |-> exc,
         log |-> Append(st.log, event),
         pk |-> IF exc = NoExc /\ pk # <<>> THEN row[pk[1].name] ELSE None]

Raise(st, exc) == [st EXCEPT !.exc = exc]

(***************************************************************************)
(* push_data_in_db: the work done for one table of one attempt.            *)
(***************************************************************************)
\* insert_data for the columns of col_map (also parent_insert_data)
BuildInsertData(cfg, ctx, t) ==
    [c \in ColNames(col_map(cfg, t)) |-> RowValue(ctx, MapGet(cfg, c))]

\* found_parent_val and parent_matched_by_col: the parent's primary key when
\* the source has a column for it, replaced by the first non-null unique
\* column when that value is falsy
ParentMatch(cfg, ctx, parent) ==
    LET parent_pk_cols == pk_cols(cfg, parent)
        direct == /\ Len(parent_pk_cols) = 1
                  /\ MapGet(cfg, parent_pk_cols[1].name) \in cfg.columns
        found == IF direct THEN RowValue(ctx, MapGet(cfg, parent_pk_cols[1].name)) ELSE None
        nonnull == SelectSeq(unique_cols_in_csv(cfg, parent),
                             LAMBDA u : RowValue(ctx, MapGet(cfg, u.name)) # None)
    IN  IF ~Truthy(found) /\ nonnull # <<>>
        THEN [by |-> nonnull[1].name, value |-> RowValue(ctx, MapGet(cfg, nonnull[1].name))]
        ELSE [by |-> IF direct THEN parent_pk_cols[1].name ELSE "", value |-> found]

\* variant: the primary key of the parent row found is not taken over
ExistingParentPkDropped(cfg, parent, existing_parent) == None

\* parent_pk_val of a parent row that was found
ExistingParentPk(cfg, parent, existing_parent) ==
    IF Len(pk_cols(cfg, parent)) = 1
    THEN existing_parent[pk_cols(cfg, parent)[1].name]
    ELSE None

\* insert_data[col_obj.name] = parent_pk_val, if it is not None
SetForeignKey(data, name, parent_pk_val) ==
    IF parent_pk_val # None THEN [data EXCEPT ![name] = parent_pk_val] ELSE data

\* the loop over the columns that carry a foreign key; r is [st, data]
RECURSIVE ResolveForeignKeys(_, _, _, _)
ResolveForeignKeys(cfg, ctx, r, cols) ==
    IF cols = <<>> \/ r.st.exc # NoExc THEN r
    ELSE LET col_obj == Head(cols)
             parent == col_obj.fk
         IN  IF col_obj.name \notin DOMAIN r.data
             THEN [r EXCEPT !.st = Raise(r.st, Exc("KeyError", col_obj.name))]
             ELSE IF r.data[col_obj.name] # None
             THEN ResolveForeignKeys(cfg, ctx, r, Tail(cols))
             ELSE IF parent \notin Range(cfg.table_order)
             THEN [r EXCEPT !.st = Raise(r.st, Exc("KeyError", parent))]
             ELSE LET m == ParentMatch(cfg, ctx, parent)
                      k == FirstMatch(r.st.db[parent], m.by, m.value)
                      parent_insert_data == BuildInsertData(cfg, ctx, parent)
                      ins == DbInsert(cfg, ctx, r.st, parent, parent_insert_data,
                                      m.by, m.value)
                  IN  IF m.by = "" \/ m.value = None
                      THEN ResolveForeignKeys(cfg, ctx, r, Tail(cols))
                      ELSE IF k # 0
                      THEN ResolveForeignKeys(cfg, ctx,
                               [r EXCEPT !.data = SetForeignKey(r.data, col_obj.name,
                                    ExistingParentPk(cfg, parent, r.st.db[parent][k]))],
                               Tail(cols))
                      ELSE IF HasKeyError(parent_insert_data)
                      THEN [r EXCEPT !.st = Raise(r.st, Exc("KeyError", parent))]
                      ELSE ResolveForeignKeys(cfg, ctx,
                               [st |-> ins,
                                data |-> IF ins.exc = NoExc
                                         THEN SetForeignKey(r.data, col_obj.name, ins.pk)
                                         ELSE r.data],
                               Tail(cols))

\* matched_by and matched_value of the table's own row; keyerror when a
\* subscript of insert_data fails
OwnMatch(cfg, t, data) ==
    LET pk == pk_cols(cfg, t)
        direct == Len(pk) = 1 /\ MapGet(cfg, pk[1].name) \in cfg.columns
        uniq_in_csv == unique_cols_in_csv(cfg, t)
        try_unique == ~direct \/ data[pk[1].name] = None
        firsts == {i \in 1..Len(uniq_in_csv) :
                      \/ uniq_in_csv[i].name \notin DOMAIN data
                      \/ data[uniq_in_csv[i].name] # None}
        first == CHOOSE i \in firsts : \A j \in firsts : i <= j
    IN  IF direct /\ pk[1].name \notin DOMAIN data
        THEN [keyerror |-> TRUE, by |-> "", value |-> None]
        ELSE IF try_unique /\ firsts # {}
        THEN IF uniq_in_csv[first].name \notin DOMAIN data
             THEN [keyerror |-> TRUE, by |-> "", value |-> None]
             ELSE [keyerror |-> FALSE, by |-> uniq_in_csv[first].name,
                   value |-> data[uniq_in_csv[first].name]]
        ELSE [keyerror |-> FALSE, by |-> IF direct THEN pk[1].name ELSE "",
              value |-> IF direct THEN data[pk[1].name] ELSE None]

\* variant: the lookup of the table's own row never finds one
ChildExistsNever(rows, m) == FALSE

\* existing_child: a row matching the key was found
ChildExists(rows, m) ==
    m.by # "" /\ m.value # None /\ FirstMatch(rows, m.by, m.value) # 0

\* the body of "for tbl_name in table_order"; st is [db, seq, exc, log, pk]
ProcessTable(cfg, ctx, st, t) ==
    LET insert_data == BuildInsertData(cfg, ctx, t)
        fk_cols == SelectSeq(cfg.schema[t], LAMBDA c : c.fk # "")
        r == ResolveForeignKeys(cfg, ctx, [st |-> st, data |-> insert_data], fk_cols)
        m == OwnMatch(cfg, t, r.data)
    IN  IF HasKeyError(insert_data) THEN Raise(st, Exc("KeyError", t))
        ELSE IF r.st.exc # NoExc THEN r.st
        ELSE IF m.keyerror THEN Raise(r.st, Exc("KeyError", t))
        ELSE IF ChildExists(r.st.db[t], m) THEN r.st
        ELSE DbInsert(cfg, ctx, r.st, t, r.data, m.by, m.value)

(***************************************************************************)
(* clean_row_data                                                          *)
(***************************************************************************)
\* value.replace(",", "").strip() on the strings of the model
CommaStripped(x) ==
    CASE x = "1,234" -> "1234"
      [] x = " 7 " -> "7"
      [] OTHER -> x

\* a text of 300 characters and its first 255 characters; every other string
\* of the model is shorter than 255
LongText == "x * 300"

LongTextPrefix == "x * 255"

\* text[:255]
Slice255(x) == IF x = LongText THEN LongTextPrefix ELSE x

IntText(i) == IF i \in 0..9 THEN <<"0", "1", "2", "3", "4", "5", "6", "7", "8", "9">>[i + 1]
              ELSE "int"

\* variant: the value is kept as it is
TruncatedNot(v) == v

\* str(value)[:255]
Truncated(v) ==
    CASE v.ty = "str" -> Str(Slice255(v.s))
      [] v.ty = "int" -> Str(IntText(v.n))
      [] OTHER -> Str("None")

\* the error texts of the model: what PostgreSQL reports for a malformed
\* numeric, for a malformed integer, for a value longer than its column and
\* for a missing value, and the numeric report of a field that reads "value
\* too long"
NumericSyntaxText == "invalid input syntax for type numeric"

IntegerSyntaxText == "invalid input syntax for type integer"

TooLongText == "value too long for type character varying"

NotNullText == "null value in column violates not-null constraint"

NumericSyntaxOfTooLongText == "invalid input syntax for type numeric: value too long"

\* "invalid input syntax" in error_msg and "type numeric" in error_msg
MatchesNumeric(msg) == msg \in {NumericSyntaxText, NumericSyntaxOfTooLongText}

\* "value too long" in error_msg
MatchesTooLong(msg) == msg \in {TooLongText, NumericSyntaxOfTooLongText}

\* e.column is the name re.search(r'column "(\w+)"', error_msg) captures, "" for
\* no match
clean_row_data(row_data, e) ==
    LET numeric == MatchesNumeric(e.msg)
        too_long == MatchesTooLong(e.msg)
        cleaned == [k \in DOMAIN row_data |->
                      IF numeric /\ row_data[k].ty = "str"
                      THEN Str(CommaStripped(row_data[k].s)) ELSE row_data[k]]
    IN  IF too_long /\ e.column \in DOMAIN cleaned
        THEN [cleaned EXCEPT ![e.column] = Truncated(cleaned[e.column])]
        ELSE cleaned

\* clean_row_data called on its own
CleanKeys == {"amount", "note"}

CleanCells == {None, Num(5), Str("1,234"), Str(" 7 "), Str(LongText)}

CleanTexts ==
    {NumericSyntaxText, IntegerSyntaxText, TooLongText, NotNullText,
     NumericSyntaxOfTooLongText}

\* the column an error text names: none, a key of the row, or another name
CleanColumns == {"", "note", "zip"}

CleanInit ==
    /\ clean_pc = "call"
    /\ clean_row \in [CleanKeys -> CleanCells]
    /\ clean_error \in [kind : {"DataError"}, msg : CleanTexts, column : CleanColumns]
    /\ clean_result = <<>>

CleanIdle ==
    /\ clean_pc = "idle"
    /\ clean_row = <<>>
    /\ clean_error = NoExc
    /\ clean_result = <<>>

\* cleaned = clean_row_data(row_data, error_msg); row_data is only read
CleanCall ==
    /\ UNCHANGED <<schedVars, execVars, pipeVars, loadVars, graphVars>>
    /\ clean_pc = "call"
    /\ clean_result' = clean_row_data(clean_row, clean_error)
    /\ clean_pc' = "done"
    /\ UNCHANGED <<clean_row, clean_error>>

CleanNext == CleanCall

(***************************************************************************)
(* push_data_in_db: the loop over the source rows and the attempts.  One   *)
(* action per step of an attempt: begin, one table, commit, the except     *)
(* clauses.                                                                *)
(***************************************************************************)
TableNames(cfg) == DOMAIN cfg.schema

SourceRows(cfg) == {r \in [cfg.columns -> UNION {cfg.cells[c] : c \in cfg.columns}] :
                       \A c \in cfg.columns : r[c] \in cfg.cells[c]}

NoRowRecord ==
    [outcome |-> "", attempt |-> 0, used |-> <<>>, begun |-> 0, errors |-> <<>>,
     touched |-> {}]

\* before push_data_in_db has returned
NotReturned == [returned |-> FALSE, is_none |-> FALSE, stats |-> <<>>]

\* the function has no return statement: the call evaluates to None
push_data_in_db_return == [returned |-> TRUE, is_none |-> TRUE, stats |-> <<>>]

NoFailure == [how |-> "none", ti |-> 0, inserted |-> 0, kind |-> ""]

LoadInit ==
    /\ l_cfg \in Scenarios
    /\ dataframe \in UNION {[1..k -> SourceRows(l_cfg)] : k \in 1..MaxRows}
    /\ l_pc = "begin"
    /\ l_idx = 1
    /\ l_attempt = 0
    /\ cleaned_row = <<>>
    /\ l_ti = 0
    /\ l_exc = NoExc
    /\ db = [t \in TableNames(l_cfg) |-> <<>>]
    /\ db_committed = db
    /\ db_seq = [t \in TableNames(l_cfg) |-> 0]
    /\ txn_open = 0
    /\ l_snapshot = db
    /\ l_last = NoFailure
    /\ l_rows = [i \in 1..Len(dataframe) |-> NoRowRecord]
    /\ l_log = <<>>
    /\ l_visited = <<>>
    /\ l_result = NotReturned

LoadIdle ==
    /\ l_cfg = <<>>
    /\ dataframe = <<>>
    /\ l_pc = "idle"
    /\ l_idx = 0
    /\ l_attempt = 0
    /\ cleaned_row = <<>>
    /\ l_ti = 0
    /\ l_exc = NoExc
    /\ db = <<>>
    /\ db_committed = <<>>
    /\ db_seq = <<>>
    /\ txn_open = 0
    /\ l_snapshot = <<>>
    /\ l_last = NoFailure
    /\ l_rows = <<>>
    /\ l_log = <<>>
    /\ l_visited = <<>>
    /\ l_result = NotReturned

Ctx == [row_data |-> dataframe[l_idx], cleaned_row |-> cleaned_row,
        idx |-> l_idx, attempt |-> l_attempt]

\* the insert statements of the current attempt
AttemptEvents(log) == SelectSeq(log, LAMBDA e : e.state = "pending")

MarkEvents(log, state) ==
    [i \in 1..Len(log) |-> IF log[i].state = "pending"
                           THEN [log[i] EXCEPT !.state = state] ELSE log[i]]

\* variant: the rollback leaves the attempt's rows in place
trans_rollback_keeps(committed, view) == view

\* variant: the rollback also removes what earlier rows committed
trans_rollback_empties(committed, view) == [t \in DOMAIN committed |-> <<>>]

\* trans.rollback(): the connection sees the committed content again
trans_rollback(committed, view) == committed

\* trans.commit(): what the connection sees becomes the committed content
trans_commit(committed, view) == view

\* variant: a transaction that ended still counts as open
trans_end_stays_open(open) == open

\* the transaction object is closed by its commit() or rollback()
trans_end(open) == open - 1

\* connection.begin() opens a transaction on the connection
connection_begin(open) == open + 1

\* variant: the table loop runs over table_order backwards
LoopTableReversed(order, ti) == order[Len(order) + 1 - ti]

\* tbl_name of the ti-th iteration of "for tbl_name in table_order"
LoopTable(order, ti) == order[ti]

\* variant: the first except clause catches every exception
CaughtAsDataErrorAlways(e) == TRUE

\* except (exc.DataError, exc.IntegrityError) matches the exception
CaughtAsDataError(e) == e.kind \in {"DataError", "IntegrityError"}

\* variant: no attempt is the last one
LastAttemptNever(a) == FALSE

\* attempt == max_retries
LastAttempt(a) == a = max_retries

\* variant: the loop over the source rows ends with the current row
NextRowStops ==
    /\ l_idx' = l_idx + 1
    /\ l_attempt' = 0
    /\ cleaned_row' = <<>>
    /\ l_pc' = "done"
    /\ l_result' = push_data_in_db_return

\* the next source row, or the end of the loop and of the function
NextRow ==
    /\ l_idx' = l_idx + 1
    /\ l_attempt' = 0
    /\ cleaned_row' = <<>>
    /\ l_pc' = IF l_idx + 1 > Len(dataframe) THEN "done" ELSE "begin"
    /\ l_result' = IF l_idx + 1 > Len(dataframe) THEN push_data_in_db_return ELSE l_result

\* trans = connection.begin()
LBegin ==
    /\ UNCHANGED <<schedVars, execVars, pipeVars, cleanVars, graphVars>>
    /\ l_pc = "begin"
    /\ txn_open' = connection_begin(txn_open)
    /\ l_snapshot' = db
    /\ l_ti' = 1
    /\ l_visited' = <<>>
    /\ l_rows' = [l_rows EXCEPT ![l_idx].begun = @ + 1]
    /\ l_pc' = IF l_cfg.table_order = <<>> THEN "commit" ELSE "tables"
    /\ UNCHANGED <<l_cfg, dataframe, l_idx, l_attempt, cleaned_row, l_exc, db, db_committed,
                   db_seq, l_last, l_log, l_result>>

\* one iteration of "for tbl_name in table_order"
LTable ==
    /\ UNCHANGED <<schedVars, execVars, pipeVars, cleanVars, graphVars>>
    /\ l_pc = "tables"
    /\ \E st \in {ProcessTable(l_cfg, Ctx,
                              [db |-> db, seq |-> db_seq, exc |-> NoExc, log |-> l_log,
                               pk |-> None],
                              LoopTable(l_cfg.table_order, l_ti))} :
           /\ db' = st.db
           /\ db_seq' = st.seq
           /\ l_log' = st.log
           /\ l_exc' = st.exc
           /\ IF st.exc # NoExc
              THEN l_pc' = "except" /\ l_ti' = l_ti
              ELSE IF l_ti = Len(l_cfg.table_order)
              THEN l_pc' = "commit" /\ l_ti' = l_ti
              ELSE l_pc' = "tables" /\ l_ti' = l_ti + 1
    /\ l_visited' = Append(l_visited, LoopTable(l_cfg.table_order, l_ti))
    /\ UNCHANGED <<l_cfg, dataframe, l_idx, l_attempt, cleaned_row, db_committed, txn_open,
                   l_snapshot, l_last, l_rows, l_result>>

\* trans.commit(); break
LCommit ==
    /\ UNCHANGED <<schedVars, execVars, pipeVars, cleanVars, graphVars>>
    /\ l_pc = "commit"
    /\ db_committed' = trans_commit(db_committed, db)
    /\ txn_open' = trans_end(txn_open)
    /\ l_rows' = [l_rows EXCEPT ![l_idx] =
                     [@ EXCEPT !.outcome = "committed", !.attempt = l_attempt,
                               !.used = IF DOMAIN cleaned_row # {} THEN cleaned_row
                                        ELSE dataframe[l_idx]]]
    /\ l_log' = MarkEvents(l_log, "committed")
    /\ l_last' = [NoFailure EXCEPT !.how = "commit"]
    /\ NextRow
    /\ UNCHANGED <<l_cfg, dataframe, l_ti, l_exc, db, db_seq, l_snapshot, l_visited>>

\* except (exc.DataError, exc.IntegrityError): rollback, then drop the row on
\* the last attempt or clean it and go round the attempt loop again
LExceptData ==
    /\ UNCHANGED <<schedVars, execVars, pipeVars, cleanVars, graphVars>>
    /\ l_pc = "except"
    /\ CaughtAsDataError(l_exc)
    /\ db' = trans_rollback(db_committed, db)
    /\ txn_open' = trans_end(txn_open)
    /\ l_log' = MarkEvents(l_log, "rolled_back")
    /\ l_last' = [how |-> "rollback", ti |-> l_ti, kind |-> l_exc.kind,
                  inserted |-> Len(SelectSeq(AttemptEvents(l_log), LAMBDA e : e.ok))]
    /\ IF LastAttempt(l_attempt)
       THEN /\ l_rows' = [l_rows EXCEPT ![l_idx] =
                             [@ EXCEPT !.outcome = "dropped", !.attempt = l_attempt,
                                       !.errors = Append(@, l_exc),
                                       !.touched = Range(l_visited)]]
            /\ NextRow
       ELSE /\ cleaned_row' = clean_row_data(IF l_attempt = 0 THEN dataframe[l_idx]
                                             ELSE cleaned_row, l_exc)
            /\ l_attempt' = l_attempt + 1
            /\ l_pc' = "begin"
            /\ l_rows' = [l_rows EXCEPT ![l_idx].errors = Append(@, l_exc)]
            /\ UNCHANGED <<l_idx, l_result>>
    /\ UNCHANGED <<l_cfg, dataframe, l_ti, l_exc, db_committed, db_seq, l_snapshot,
                   l_visited>>

\* except Exception: rollback; break
LExceptOther ==
    /\ UNCHANGED <<schedVars, execVars, pipeVars, cleanVars, graphVars>>
    /\ l_pc = "except"
    /\ ~CaughtAsDataError(l_exc)
    /\ db' = trans_rollback(db_committed, db)
    /\ txn_open' = trans_end(txn_open)
    /\ l_log' = MarkEvents(l_log, "rolled_back")
    /\ l_last' = [how |-> "rollback", ti |-> l_ti, kind |-> l_exc.kind,
                  inserted |-> Len(SelectSeq(AttemptEvents(l_log), LAMBDA e : e.ok))]
    /\ l_rows' = [l_rows EXCEPT ![l_idx] =
                     [@ EXCEPT !.outcome = "dropped", !.attempt = l_attempt,
                               !.errors = Append(@, l_exc),
                               !.touched = Range(l_visited)]]
    /\ NextRow
    /\ UNCHANGED <<l_cfg, dataframe, l_ti, l_exc, db_committed, db_seq, l_snapshot,
                   l_visited>>

LoadNext ==
    \/ LBegin
    \/ LTable
    \/ LCommit
    \/ LExceptData
    \/ LExceptOther


(***************************************************************************)
(* parse_sql_query and create_query_dependent_graph.  A statement is the   *)
(* CreateStmt pglast returns for its text: the relation name and the       *)
(* table elements in the order they are written.  A table element is a     *)
(* ColumnDef with its column constraints or a table-level Constraint; a    *)
(* constraint has its type and, for a foreign key, the referenced table.   *)
(***************************************************************************)
MaxStatements == 3

Constraint(contype, pktable, keys) ==
    [node |-> "Constraint", contype |-> contype, pktable |-> pktable, keys |-> keys,
     colname |-> "", constraints |-> <<>>]

ColumnDef(colname, constraints) ==
    [node |-> "ColumnDef", contype |-> "", pktable |-> "", keys |-> <<>>,
     colname |-> colname, constraints |-> constraints]

CreateStmt(relname, tableElts) == [relname |-> relname, tableElts |-> tableElts]

\* CREATE TABLE a (id INT PRIMARY KEY, CONSTRAINT age_check CHECK (age >= 18))
StmtA ==
    CreateStmt("a", <<ColumnDef("id", <<Constraint("CONSTR_PRIMARY", "", <<>>)>>),
                      Constraint("CONSTR_CHECK", "", <<"age">>)>>)

\* CREATE TABLE b (id INT, a_id INT REFERENCES a (id))
StmtBofA ==
    CreateStmt("b", <<ColumnDef("id", <<>>),
                      ColumnDef("a_id", <<Constraint("CONSTR_FOREIGN", "a", <<>>)>>)>>)

\* CREATE TABLE b (id INT, c_id INT, FOREIGN KEY (c_id) REFERENCES c (id))
StmtBofC ==
    CreateStmt("b", <<ColumnDef("id", <<>>), ColumnDef("c_id", <<>>),
                      Constraint("CONSTR_FOREIGN", "c", <<"c_id">>)>>)

\* CREATE TABLE c (a_id INT NOT NULL REFERENCES a (id), b_id INT,
\*                 FOREIGN KEY (b_id) REFERENCES b (id), UNIQUE (a_id, b_id))
StmtCofAB ==
    CreateStmt("c", <<ColumnDef("a_id", <<Constraint("CONSTR_NOTNULL", "", <<>>),
                                          Constraint("CONSTR_FOREIGN", "a", <<>>)>>),
                      ColumnDef("b_id", <<>>),
                      Constraint("CONSTR_FOREIGN", "b", <<"b_id">>),
                      Constraint("CONSTR_UNIQUE", "", <<"a_id", "b_id">>)>>)

\* CREATE TABLE c (x INT REFERENCES a (id), y INT, z INT,
\*                 FOREIGN KEY (y) REFERENCES a (id), FOREIGN KEY (z) REFERENCES a (id))
StmtCofAA ==
    CreateStmt("c", <<ColumnDef("x", <<Constraint("CONSTR_FOREIGN", "a", <<>>)>>),
                      ColumnDef("y", <<>>), ColumnDef("z", <<>>),
                      Constraint("CONSTR_FOREIGN", "a", <<"y">>),
                      Constraint("CONSTR_FOREIGN", "a", <<"z">>)>>)

Statements == {StmtA, StmtBofA, StmtBofC, StmtCofAB, StmtCofAA}

\* extract_column_names_from_parsed_query: the colname of every ColumnDef
extract_column_names_from_parsed_query(create_stmt) ==
    LET defs == SelectSeq(create_stmt.tableElts, LAMBDA e : e.node = "ColumnDef")
    IN  [i \in 1..Len(defs) |-> defs[i].colname]

\* variant: the table-level constraints are not looked at
foreign_tables_of_columns_only(create_stmt) ==
    {c.pktable : c \in {k \in UNION {Range(e.constraints) :
                                        e \in {x \in Range(create_stmt.tableElts) :
                                                  x.node = "ColumnDef"}} :
                           k.contype = "CONSTR_FOREIGN"}}

\* the set foreign_tables: the tables referenced by the foreign-key
\* constraints of the column definitions and by the table-level ones
foreign_tables(create_stmt) ==
    {c.pktable : c \in {k \in UNION {Range(e.constraints) :
                                        e \in {x \in Range(create_stmt.tableElts) :
                                                  x.node = "ColumnDef"}} :
                           k.contype = "CONSTR_FOREIGN"}}
    \cup {e.pktable : e \in {x \in Range(create_stmt.tableElts) :
                                x.node = "Constraint" /\ x.contype = "CONSTR_FOREIGN"}}

\* list(foreign_tables): the elements of the set in the order the set is
\* enumerated, which is one of its enumerations
extract_foreign_keys_from_parsed_query(create_stmt, enum) == enum

\* parse_sql_query with the columns and the foreign keys as lists
table_info_of(create_stmt, enum) ==
    [query |-> create_stmt,
     name |-> create_stmt.relname,
     columns |-> extract_column_names_from_parsed_query(create_stmt),
     foreign_keys |-> extract_foreign_keys_from_parsed_query(create_stmt, enum)]

\* d.setdefault(key, [])
setdefault(d, key) ==
    [k \in DOMAIN d \cup {key} |-> IF k \in DOMAIN d THEN d[k] ELSE <<>>]

\* variant: the referencing table gets the edge to the referenced one
AppendDependentReversed(graph, fk_table, table_name) ==
    [setdefault(graph, fk_table) EXCEPT ![table_name] = Append(@, fk_table)]

\* dependency_graph.setdefault(fk_table, []).append(table_name)
AppendDependent(graph, fk_table, table_name) ==
    [setdefault(graph, fk_table) EXCEPT ![fk_table] = Append(@, table_name)]

\* for fk_table in table_info["foreign_keys"]
RECURSIVE AddDependents(_, _, _)
AddDependents(graph, foreign_keys, table_name) ==
    IF foreign_keys = <<>> THEN graph
    ELSE AddDependents(AppendDependent(graph, Head(foreign_keys), table_name),
                       Tail(foreign_keys), table_name)

\* the loop over the queries from position i on; enums[i] is the order in
\* which the set of foreign tables of statement i is enumerated
RECURSIVE GraphLoop(_, _, _, _, _)
GraphLoop(queries, enums, i, dependency_graph, registry) ==
    IF i > Len(queries)
    THEN [dependency_graph |-> dependency_graph, tables |-> registry]
    ELSE LET table_info == table_info_of(queries[i], enums[i])
             table_name == table_info.name
         IN  GraphLoop(queries, enums, i + 1,
                       AddDependents(setdefault(dependency_graph, table_name),
                                     table_info.foreign_keys, table_name),
                       [n \in DOMAIN registry \cup {table_name} |->
                           IF n = table_name THEN table_info ELSE registry[n]])

\* the pair returned; the dicts are functions, so two results are equal
\* when == holds for the Python values
create_query_dependent_graph(queries, enums) == GraphLoop(queries, enums, 1, <<>>, <<>>)

\* the enumeration orders the sets of a call can have
EnumsOf(queries) ==
    {f \in [1..Len(queries) -> UNION {Enumerations(foreign_tables(q)) : q \in Statements}] :
        \A i \in 1..Len(queries) : f[i] \in Enumerations(foreign_tables(queries[i]))}

NotBuilt == [dependency_graph |-> <<>>, tables |-> <<>>]

GraphInit ==
    /\ g_pc = "build"
    /\ g_queries \in SeqsUpTo(Statements, MaxStatements)
    /\ g_first = NotBuilt
    /\ g_second = NotBuilt

GraphIdle ==
    /\ g_pc = "idle"
    /\ g_queries = <<>>
    /\ g_first = NotBuilt
    /\ g_second = NotBuilt

\* create_query_dependent_graph(queries)
GraphBuild ==
    /\ UNCHANGED <<schedVars, execVars, pipeVars, loadVars, cleanVars>>
    /\ g_pc = "build"
    /\ \E enums \in EnumsOf(g_queries) :
          g_first' = create_query_dependent_graph(g_queries, enums)
    /\ g_pc' = "rebuild"
    /\ UNCHANGED <<g_queries, g_second>>

\* the same call again, as a later attempt or a later run makes it
GraphRebuild ==
    /\ UNCHANGED <<schedVars, execVars, pipeVars, loadVars, cleanVars>>
    /\ g_pc = "rebuild"
    /\ \E enums \in EnumsOf(g_queries) :
          g_second' = create_query_dependent_graph(g_queries, enums)
    /\ g_pc' = "done"
    /\ UNCHANGED <<g_queries, g_first>>

GraphNext ==
    \/ GraphBuild
    \/ GraphRebuild

(***************************************************************************)
(* Specifications: one per component, the other components idle.           *)
(***************************************************************************)
InitSched == SchedInit /\ ExecIdle /\ PipeIdle /\ LoadIdle /\ CleanIdle /\ GraphIdle

InitExec == SchedIdle /\ ExecInit /\ PipeIdle /\ LoadIdle /\ CleanIdle /\ GraphIdle

InitPipe == SchedIdle /\ ExecIdle /\ PipeInit /\ LoadIdle /\ CleanIdle /\ GraphIdle

InitLoad == SchedIdle /\ ExecIdle /\ PipeIdle /\ LoadInit /\ CleanIdle /\ GraphIdle

InitClean == SchedIdle /\ ExecIdle /\ PipeIdle /\ LoadIdle /\ CleanInit /\ GraphIdle

SpecSched == InitSched /\ [][SchedNext]_vars

SpecExec == InitExec /\ [][ExecNext]_vars

SpecPipe == InitPipe /\ [][PipeNext]_vars

SpecLoad == InitLoad /\ [][LoadNext]_vars

SpecClean == InitClean /\ [][CleanNext]_vars

InitGraph == SchedIdle /\ ExecIdle /\ PipeIdle /\ LoadIdle /\ CleanIdle /\ GraphInit

SpecGraph == InitGraph /\ [][GraphNext]_vars

\* the loader on the sales scenarios
InitLoadSales ==
    /\ InitLoad
    /\ l_cfg \in {ScenarioSales, ScenarioSalesRefs, ScenarioSalesIds}

\* the loader runs in one thread that is never suspended for ever: a step
\* that can be taken is taken
SpecLoadFair == InitLoadSales /\ [][LoadNext]_vars /\ WF_vars(LoadNext)

(***************************************************************************)
(* Properties of the scheduler.  The dependency relation, acyclicity and   *)
(* the tables a cycle blocks are defined from the traits themselves, not   *)
(* from the adjacency map the code builds.                                 *)
(***************************************************************************)
\* the declared dependencies as a set of <<parent, child>> pairs
DeclaredEdges(traits_list) ==
    UNION {{<<traits_list[i].dependencies[k], traits_list[i].name>> :
               k \in 1..Len(traits_list[i].dependencies)} : i \in 1..Len(traits_list)}

RECURSIVE Closure(_, _)
Closure(R, n) ==
    IF n = 0 THEN R
    ELSE Closure(R \cup {<<e[1], f[2]>> : <<e, f>> \in {ef \in R \X R : ef[1][2] = ef[2][1]}},
                 n - 1)

Reach(traits_list) == Closure(DeclaredEdges(traits_list), Len(Names))

HasCycle(traits_list) == \E n \in NameSet : <<n, n>> \in Reach(traits_list)

\* tables on a cycle or downstream of one: those Kahn's algorithm cannot emit
Blocked(traits_list) ==
    {n \in NameSet : \E m \in NameSet : /\ <<m, m>> \in Reach(traits_list)
                                       /\ (m = n \/ <<m, n>> \in Reach(traits_list))}

UniverseMatches ==
    all_potential_nodes(table_traits_list) = Range(initial_table_list)

Position(order, n) == CHOOSE i \in 1..Len(order) : order[i] = n

\* C1: for an acyclic dependency set whose node set equals the declared table
\* list, the returned order holds every table exactly once and every parent
\* strictly before its child.
C1_CompleteValidOrder ==
    (sched_pc = "done" /\ ~HasCycle(table_traits_list) /\ UniverseMatches) =>
        /\ sched_result.kind = "order"
        /\ Len(sched_result.order) = Cardinality(all_potential_nodes(table_traits_list))
        /\ Range(sched_result.order) = all_potential_nodes(table_traits_list)
        /\ \A e \in DeclaredEdges(table_traits_list) :
              Position(sched_result.order, e[1]) < Position(sched_result.order, e[2])

C1_Witness ==
    /\ sched_pc = "done"
    /\ ~HasCycle(table_traits_list)
    /\ UniverseMatches
    /\ Cardinality(DeclaredEdges(table_traits_list)) >= 2
    /\ sched_result.kind = "order"
    /\ Len(sched_result.order) = 3

\* C2: the returned order is a function of the inputs only: every enumeration
\* order of the node set gives the result this run gave.
C2_SameResultEveryRun ==
    sched_pc = "done" =>
        \A enum \in Enumerations(all_potential_nodes(table_traits_list)) :
            determine_table_creation_order(table_traits_list, initial_table_list, enum)
                = sched_result

\* tables not yet emitted whose parents have all been emitted before position i
Eligible(order, i) ==
    LET emitted == {order[j] : j \in 1..(i - 1)}
    IN  {n \in Range(order) \ emitted :
            \A e \in DeclaredEdges(table_traits_list) : e[2] = n => e[1] \in emitted}

\* C3: every table of the returned order is the lexicographically smallest of
\* the tables eligible at its position.
C3_SmallestEligibleNext ==
    (sched_pc = "done" /\ sched_result.kind = "order") =>
        \A i \in 1..Len(sched_result.order) :
            \A n \in Eligible(sched_result.order, i) :
                NameRank(sched_result.order[i]) <= NameRank(n)

PipeUniverseMatches ==
    all_potential_nodes(data_dict.table_traits) = Range(data_dict.table_list)

\* C5: when the tables of the traits differ from the declared list the
\* scheduler raises an error (naming the missing and the extra tables when it
\* is the mismatch error), the attempt does not go on to execute DDL, and at
\* the moment of the error no DDL statement has been sent to the database in
\* any attempt of the run.
C5_MismatchBeforeAnyDDL ==
    /\ (p_pc \in {"execute", "validate_content", "load", "loading"}) => PipeUniverseMatches
    /\ (p_pc = "raised" /\ p_error.kind = "mismatch_error") =>
          /\ p_error.missing =
                Range(data_dict.table_list) \ all_potential_nodes(data_dict.table_traits)
          /\ p_error.extra =
                all_potential_nodes(data_dict.table_traits) \ Range(data_dict.table_list)
    /\ (p_pc = "raised" /\ p_error.kind \in {"mismatch_error", "empty_traits_error"}) =>
          p_ddl_log = <<>>

\* C6: after execute_queries has returned or raised, either every table of
\* the creation order has been created and committed or the database holds
\* exactly the tables it held before the call.
C6_AllOrNothing ==
    exec_pc = "done" =>
        \/ /\ exec_result.value.success
           /\ exec_db = exec_db0 \cup Range(table_order)
        \/ /\ ~exec_result.value.success
           /\ exec_db = exec_db0

C6_Witness ==
    /\ exec_pc = "done"
    /\ exec_result.raised = "KeyError"
    /\ exec_result.run.txn # exec_db0
    /\ exec_db = exec_db0

\* C7: the failure execute_queries returns for a failed statement carries the
\* database's error message and the name of the table whose statement failed.
C7_FailureCarriesMessageAndTable ==
    (exec_pc = "done" /\ exec_result.run.status = "SQLAlchemyError") =>
        /\ ~exec_result.value.success
        /\ exec_result.value.error.message = exec_result.run.message
        /\ "table_name" \in DOMAIN exec_result.value.error
        /\ exec_result.value.error.table_name = exec_result.run.at

(***************************************************************************)
(* Properties of push_data_in_db.                                          *)
(***************************************************************************)
\* C8: after the rollback of a failed attempt the database content is what it
\* was when the attempt began, and no row inserted by a rolled-back attempt
\* exists in the committed content.
C8_RowAtomicity ==
    /\ (l_last.how = "rollback" /\ l_pc \in {"begin", "done"}) =>
          db = l_snapshot /\ db_committed = l_snapshot
    /\ \A k \in 1..Len(l_log) :
          (l_log[k].state = "rolled_back" /\ l_log[k].ok) =>
              l_log[k].row \notin Range(db_committed[l_log[k].table])

\* table 2 of 3 failed after an insert of the attempt had succeeded
C8_Witness ==
    /\ l_last.how = "rollback"
    /\ l_pc \in {"begin", "done"}
    /\ Len(l_cfg.table_order) = 3
    /\ l_last.ti = 2
    /\ l_last.inserted >= 1

\* the parent's natural key in a source row: its first single-column unique
\* column that has a non-null value there ("" if there is none)
NaturalKeyCol(cfg, parent, used) ==
    LET present == SelectSeq(unique_cols_in_csv(cfg, parent),
                             LAMBDA u : used[MapGet(cfg, u.name)] # None)
    IN  IF present = <<>> THEN "" ELSE present[1].name

\* the foreign-key columns of table t the source row gives no value for and
\* whose parent is identified by a natural key
ResolvedForeignKeys(cfg, t, used) ==
    {j \in 1..Len(cfg.schema[t]) :
        LET c == cfg.schema[t][j]
        IN  /\ c.fk # ""
            /\ (MapGet(cfg, c.name) \notin DOMAIN used \/ used[MapGet(cfg, c.name)] = None)
            /\ Len(pk_cols(cfg, c.fk)) = 1
            /\ MapGet(cfg, pk_cols(cfg, c.fk)[1].name) \notin cfg.columns
            /\ NaturalKeyCol(cfg, c.fk, used) # ""}

\* C9: for every committed source row and every row it inserted, each
\* foreign key resolved by natural key holds the primary key of the one
\* parent row with that natural-key value (so source rows with the same value
\* share one parent row), and no attempt fails on a missing parent.
C9_OneParentSharedKey ==
    /\ l_exc.msg # "violates foreign key constraint"
    /\ \A k \in 1..Len(l_log) :
          LET e == l_log[k]
              used == l_rows[e.idx].used
          IN  (e.state = "committed" /\ e.ok) =>
                  /\ e.row \in Range(db_committed[e.table])
                  /\ \A j \in ResolvedForeignKeys(l_cfg, e.table, used) :
                        LET c == l_cfg.schema[e.table][j]
                            u == NaturalKeyCol(l_cfg, c.fk, used)
                            v == used[MapGet(l_cfg, u)]
                            parents == {m \in 1..Len(db_committed[c.fk]) :
                                           db_committed[c.fk][m][u] = v}
                        IN  /\ Cardinality(parents) = 1
                            /\ \A m \in parents :
                                  e.row[c.name] =
                                      db_committed[c.fk][m][pk_cols(l_cfg, c.fk)[1].name]

\* two committed source rows with the same artist inserted one album each:
\* one artist row, and the second album found the artist the first created
C9_Witness ==
    /\ l_pc = "done"
    /\ Len(dataframe) = 2
    /\ l_rows[1].outcome = "committed"
    /\ l_rows[2].outcome = "committed"
    /\ "artist_name" \in l_cfg.columns
    /\ dataframe[1]["artist_name"] = dataframe[2]["artist_name"]
    /\ Len(db_committed["artists"]) = 1
    /\ Len(db_committed["albums"]) = 2
    /\ \E k \in 1..Len(l_log) : l_log[k].idx = 1 /\ l_log[k].table = "artists" /\ l_log[k].ok

SameKey(e, f) == e.table = f.table /\ e.by # "" /\ e.by = f.by /\ e.value = f.value

\* C10 as claimed: for each table and natural-key value at most one insert
\* statement succeeds during the run, whatever is rolled back in between.
C10_AtMostOneInsertPerKey ==
    \A k1, k2 \in 1..Len(l_log) :
        (k1 # k2 /\ l_log[k1].ok /\ l_log[k2].ok) => ~SameKey(l_log[k1], l_log[k2])

\* C10 as amended: an insert for a natural-key value is executed only when
\* the lookup found no row with that value, and of the inserts for one value
\* at most one is not undone by a rollback (so at most one is committed).
C10_OneInsertInEffectPerKey ==
    /\ \A k \in 1..Len(l_log) : ~l_log[k].present
    /\ \A k1, k2 \in 1..Len(l_log) :
          (/\ k1 # k2
           /\ l_log[k1].ok /\ l_log[k1].state # "rolled_back"
           /\ l_log[k2].ok /\ l_log[k2].state # "rolled_back") =>
              ~SameKey(l_log[k1], l_log[k2])

\* the same value was inserted twice: once undone by a rollback, once committed
C10_Witness ==
    \E k1, k2 \in 1..Len(l_log) :
        /\ SameKey(l_log[k1], l_log[k2])
        /\ l_log[k1].ok /\ l_log[k1].state = "rolled_back"
        /\ l_log[k2].ok /\ l_log[k2].state = "committed"

(***************************************************************************)
(* Properties of the loader's retry policy and of its loop over the rows.  *)
(***************************************************************************)
DataOrIntegrity == {"DataError", "IntegrityError"}

\* the step that leaves an except clause
Caught == l_pc = "except"

\* the row the step was working on is dropped by it
DropStep == Caught /\ l_rows'[l_idx].outcome = "dropped"

\* the steps an attempt has left at most, the attempts a row has left and the
\* rows the run has left, weighted so that a retry and a new row count less
\* than what they use up
StepsLeft ==
    CASE l_pc = "begin" -> Len(l_cfg.table_order) + 2
      [] l_pc = "tables" -> Len(l_cfg.table_order) - l_ti + 2
      [] l_pc \in {"commit", "except"} -> 1
      [] OTHER -> 0

AttemptWeight == Len(l_cfg.table_order) + 4

RowWeight == (1 + 2) * AttemptWeight + 1

WorkLeft ==
    (Len(dataframe) + 1 - l_idx) * RowWeight + (2 - l_attempt) * AttemptWeight + StepsLeft

\* C11: the per-row sequence is begun at most 1 + 2 times for every source
\* row; a data-type or integrity error before the last attempt cleans the row
\* and starts the row again at its first table, on the last attempt it drops
\* the row; consequently the work left shrinks with every step of the loader
\* and never goes below zero, so that push_data_in_db takes finitely many
\* steps for every sequence of rows.
C11_RetryBound ==
    /\ [](\A i \in 1..Len(l_rows) : l_rows[i].begun <= 1 + 2)
    /\ [](l_pc = "tables" /\ l_visited = <<>> => l_ti = 1)
    /\ [][(Caught /\ l_exc.kind \in DataOrIntegrity) =>
             IF l_rows[l_idx].begun < 1 + 2
             THEN /\ l_idx' = l_idx
                  /\ l_pc' = "begin"
                  /\ l_rows'[l_idx].outcome = ""
                  /\ cleaned_row' = clean_row_data(IF l_rows[l_idx].begun = 1
                                                   THEN dataframe[l_idx] ELSE cleaned_row,
                                                   l_exc)
             ELSE /\ l_rows'[l_idx].outcome = "dropped"
                  /\ l_idx' = l_idx + 1]_vars
    /\ [](WorkLeft >= 0)
    /\ [][WorkLeft' < WorkLeft]_vars

\* a row was dropped by its third attempt and the loader has finished
C11_Witness ==
    /\ l_pc = "done"
    /\ \E i \in 1..Len(l_rows) :
          /\ l_rows[i].outcome = "dropped"
          /\ l_rows[i].begun = 3
          /\ l_rows[i].attempt = 2

\* the row's only defect is the thousands separator of its numeric field
SeparatorOnly(row) ==
    /\ {"city", "amount"} \subseteq DOMAIN row
    /\ row.city # None
    /\ row.amount = Str("1,234")

NumericSyntaxError(e) ==
    e.kind = "DataError" /\ e.msg = "invalid input syntax for type numeric"

\* the insert statements of source row i that were committed into table t
CommittedInserts(i, t) ==
    {k \in 1..Len(l_log) : /\ l_log[k].idx = i
                           /\ l_log[k].table = t
                           /\ l_log[k].ok
                           /\ l_log[k].state = "committed"}

\* C12: a source row whose only defect is a numeric field written "1,234"
\* and whose first attempt failed with the numeric syntax error is committed
\* by the retry, with 1234 stored, in every table of the schema, whether or
\* not every column of the tables has a field in the source.
C12_CleaningConvergence ==
    \A i \in 1..Len(dataframe) :
        (/\ SeparatorOnly(dataframe[i])
         /\ l_rows[i].outcome # ""
         /\ NumericSyntaxError(l_rows[i].errors[1]))
        => /\ l_rows[i].outcome = "committed"
           /\ l_rows[i].attempt = 1
           /\ \A t \in Range(l_cfg.table_order) :
                 /\ CommittedInserts(i, t) # {}
                 /\ \A k \in CommittedInserts(i, t) :
                       "amount" \in DOMAIN l_log[k].row => l_log[k].row.amount = Num(1234)

(***************************************************************************)
(* Properties of clean_row_data.  The length of a text and the prefix      *)
(* relation are given for the strings of the model.                        *)
(***************************************************************************)
TextLen(x) ==
    CASE x = LongText -> 300
      [] x = LongTextPrefix -> 255
      [] x \in {"1,234"} -> 5
      [] x \in {"1234", "None"} -> 4
      [] x \in {" 7 "} -> 3
      [] OTHER -> 1

\* str(v) of a cell
TextOf(v) ==
    CASE v.ty = "str" -> v.s
      [] v.ty = "int" -> IF v.n = 5 THEN "5" ELSE "int"
      [] OTHER -> "None"

IsPrefix(x, y) == x = y \/ (x = LongTextPrefix /\ y = LongText)

\* x without its thousands separators and surrounding whitespace
IsStripped(x, y) ==
    \/ x = "1,234" /\ y = "1234"
    \/ x = " 7 " /\ y = "7"
    \/ x \notin {"1,234", " 7 "} /\ y = x

NamesColumnOfRow == clean_error.column \in DOMAIN clean_row

\* what the call returned for each field, by the kind of the error text
CleanedAsStated ==
    clean_pc = "done" =>
          LET numeric == clean_error.msg \in {NumericSyntaxText, NumericSyntaxOfTooLongText}
              too_long == clean_error.msg \in {TooLongText, NumericSyntaxOfTooLongText}
              truncates == too_long /\ NamesColumnOfRow
          IN  /\ DOMAIN clean_result = DOMAIN clean_row
              /\ \A k \in DOMAIN clean_row :
                    LET v == clean_row[k]
                        w == clean_result[k]
                        cut == truncates /\ k = clean_error.column
                    IN  /\ (numeric /\ ~cut /\ v.ty = "str") =>
                              w.ty = "str" /\ IsStripped(v.s, w.s)
                        /\ (numeric /\ ~cut /\ v.ty # "str") => w = v
                        /\ (cut /\ ~numeric) =>
                              /\ w.ty = "str"
                              /\ TextLen(w.s) <= 255
                              /\ IsPrefix(w.s, TextOf(v))
                              /\ TextLen(TextOf(v)) <= 255 => w.s = TextOf(v)
                        /\ (cut /\ numeric) =>
                              /\ w.ty = "str"
                              /\ TextLen(w.s) <= 255
                              /\ \E y \in {TextOf(v), "1234", "7"} :
                                    /\ IsPrefix(w.s, y)
                                    /\ IF v.ty = "str" THEN IsStripped(v.s, y)
                                       ELSE y = TextOf(v)
                        /\ (~numeric /\ ~cut) => w = v

\* C13: on a numeric-type error text every string field loses its thousands
\* separators and surrounding whitespace and the other fields stay as they
\* are; on a length-exceeded error text that names a column of the row, that
\* column becomes the first 255 characters at most of its value's text and the
\* other fields stay as they are; on any other text the overlay equals the
\* input; a text that is of both kinds gets both treatments, the stripping
\* first.  The input row is never modified.
C13_TwoHeuristics == []CleanedAsStated /\ [][clean_row' = clean_row]_vars

\* a length-exceeded text naming a column cut a 300-character value to 255
\* characters and left the other field, which has a separator, as it was
C13_Witness ==
    /\ clean_pc = "done"
    /\ clean_error.msg = TooLongText
    /\ clean_error.column = "note"
    /\ clean_row.note = Str(LongText)
    /\ clean_result.note = Str(LongTextPrefix)
    /\ clean_row.amount = Str("1,234")
    /\ clean_result.amount = Str("1,234")

(***************************************************************************)
(* Properties of the loader's handling of other errors, of its progress    *)
(* over the rows and of its return value.                                  *)
(***************************************************************************)
\* C14: an error that is neither a data-type nor an integrity error rolls the
\* row's transaction back and drops the row at once, on whichever attempt it
\* occurs: the row is not cleaned and no further attempt is begun for it.
C14_UnexpectedErrorDropsRow ==
    /\ [][(Caught /\ l_exc.kind \notin DataOrIntegrity) =>
             /\ db' = l_snapshot
             /\ db_committed' = l_snapshot
             /\ txn_open' = txn_open - 1
             /\ l_rows'[l_idx].outcome = "dropped"
             /\ l_rows'[l_idx].begun = l_attempt + 1
             /\ l_idx' = l_idx + 1
             /\ cleaned_row' = <<>>]_vars
    /\ [](\A i \in 1..Len(l_rows) : \A k \in 1..Len(l_rows[i].errors) :
              l_rows[i].errors[k].kind \notin DataOrIntegrity =>
                 /\ k = Len(l_rows[i].errors)
                 /\ l_rows[i].outcome = "dropped"
                 /\ l_rows[i].begun = k)

\* a row was dropped by a KeyError on its second attempt, after it had been
\* cleaned once, and a later row has been begun since
C14_Witness ==
    \E i \in 1..Len(l_rows) :
        /\ l_rows[i].outcome = "dropped"
        /\ Len(l_rows[i].errors) = 2
        /\ l_rows[i].errors[1].kind = "DataError"
        /\ l_rows[i].errors[2].kind = "KeyError"
        /\ l_rows[i].begun = 2
        /\ i < Len(l_rows)
        /\ l_rows[i + 1].begun >= 1

EveryRowSettled ==
    \A i \in 1..Len(l_rows) : l_rows[i].outcome \in {"committed", "dropped"}

\* C15: the step that drops a row goes on to the next source row (or ends the
\* loop after the last one), every source row is eventually committed or
\* dropped, and the call eventually returns.
C15_RunProceeds ==
    /\ [][DropStep =>
             /\ l_idx' = l_idx + 1
             /\ l_pc' = IF l_idx < Len(dataframe) THEN "begin" ELSE "done"]_vars
    /\ <>EveryRowSettled
    /\ <>(l_pc = "done" /\ l_result.returned /\ EveryRowSettled)

\* the first row was dropped, the second was committed after it and the call
\* has returned
C15_Witness ==
    /\ l_pc = "done"
    /\ l_result.returned
    /\ Len(l_rows) >= 2
    /\ l_rows[1].outcome = "dropped"
    /\ l_rows[2].outcome = "committed"

\* the rows dropped on their last attempt whose last attempt visited table t
ExhaustedOn(t) ==
    {i \in 1..Len(l_rows) : /\ l_rows[i].outcome = "dropped"
                            /\ l_rows[i].begun = 1 + 2
                            /\ t \in l_rows[i].touched}

DroppedOn(t) ==
    {i \in 1..Len(l_rows) : l_rows[i].outcome = "dropped" /\ t \in l_rows[i].touched}

\* C16: the loader returns per-table statistics: for every table a dropped
\* count that counts each row dropped after the last retry once if the row
\* touched the table, and that never exceeds the attempted count.
C16_DropAccounting ==
    l_result.returned =>
        /\ ~l_result.is_none
        /\ \A t \in Range(l_cfg.table_order) :
              /\ t \in DOMAIN l_result.stats
              /\ l_result.stats[t].dropped >= Cardinality(ExhaustedOn(t))
              /\ l_result.stats[t].dropped <= Cardinality(DroppedOn(t))
              /\ l_result.stats[t].dropped <= l_result.stats[t].attempted

(***************************************************************************)
(* The loader as a function of its rows, built from the same table step,   *)
(* cleaning and transaction operators as the actions: used to compare the  *)
(* run with the run over the rows that were not dropped.                   *)
(***************************************************************************)
\* the table loop of one attempt, from position ti on
RECURSIVE RunTables(_, _, _, _)
RunTables(cfg, ctx, st, ti) ==
    IF ti > Len(cfg.table_order) \/ st.exc # NoExc THEN st
    ELSE RunTables(cfg, ctx, ProcessTable(cfg, ctx, st, LoopTable(cfg.table_order, ti)),
                   ti + 1)

\* the attempts of one source row; s is [db, seq]
RECURSIVE RunRow(_, _, _, _, _)
RunRow(cfg, s, row, a, cleaned) ==
    LET ctx == [row_data |-> row, cleaned_row |-> cleaned, idx |-> 0, attempt |-> a]
        st == RunTables(cfg, ctx,
                        [db |-> s.db, seq |-> s.seq, exc |-> NoExc, log |-> <<>>,
                         pk |-> None], 1)
    IN  IF st.exc = NoExc
        THEN [db |-> trans_commit(s.db, st.db), seq |-> st.seq]
        ELSE IF CaughtAsDataError(st.exc) /\ ~LastAttempt(a)
        THEN RunRow(cfg, [db |-> trans_rollback(s.db, st.db), seq |-> st.seq], row, a + 1,
                    clean_row_data(IF a = 0 THEN row ELSE cleaned, st.exc))
        ELSE [db |-> trans_rollback(s.db, st.db), seq |-> st.seq]

RECURSIVE RunAll(_, _, _)
RunAll(cfg, s, rows) ==
    IF rows = <<>> THEN s
    ELSE RunAll(cfg, RunRow(cfg, s, Head(rows), 0, <<>>), Tail(rows))

\* a stored row without its generated key, every foreign key replaced by
\* the row it references
RECURSIVE RowImage(_, _, _, _)
RowImage(cfg, content, t, row) ==
    LET cols == SelectSeq(cfg.schema[t], LAMBDA c : ~(c.autoincrement /\ c.primary_key))
    IN  [c \in ColNames(cols) |->
            LET col == ColOf(cols, c)
                k == IF col.fk # "" /\ row[c] # None
                     THEN FirstMatch(content[col.fk], pk_cols(cfg, col.fk)[1].name, row[c])
                     ELSE 0
            IN  IF k # 0
                THEN [ty |-> "ref", n |-> 0, s |-> col.fk,
                      to |-> RowImage(cfg, content, col.fk, content[col.fk][k])]
                ELSE [ty |-> row[c].ty, n |-> row[c].n, s |-> row[c].s, to |-> <<>>]]

ContentImage(cfg, content) ==
    [t \in DOMAIN content |->
        [k \in 1..Len(content[t]) |-> RowImage(cfg, content, t, content[t][k])]]

\* the source rows that were not dropped, in source order
RowsKept ==
    LET keep == {i \in 1..Len(dataframe) : l_rows[i].outcome # "dropped"}
        F[n \in 0..Len(dataframe)] ==
            IF n = 0 THEN <<>>
            ELSE IF n \in keep THEN Append(F[n - 1], dataframe[n]) ELSE F[n - 1]
    IN  F[Len(dataframe)]

IsPrefixSeq(x, y) == Len(x) <= Len(y) /\ \A k \in 1..Len(x) : x[k] = y[k]

\* C17: the step that drops a row leaves the committed content as it was
\* before the row, committed rows are never removed or changed afterwards,
\* and the content at the end is, up to the values of generated keys, the
\* content the loader produces for the source without the dropped rows.
C17_OnlyFailingRowDropped ==
    /\ [][DropStep => db_committed' = db_committed /\ db' = db_committed]_vars
    /\ [][\A t \in DOMAIN db_committed :
              IsPrefixSeq(db_committed[t], db_committed'[t])]_vars
    /\ [](l_pc = "done" =>
             ContentImage(l_cfg, db_committed) =
                ContentImage(l_cfg,
                    RunAll(l_cfg, [db |-> [t \in TableNames(l_cfg) |-> <<>>],
                                   seq |-> [t \in TableNames(l_cfg) |-> 0]],
                           RowsKept).db))

\* a row was dropped after a rolled-back insert had used up a key value,
\* and a later row is committed into the same table
C17_Witness ==
    /\ l_pc = "done"
    /\ \E i, j \in 1..Len(l_rows) :
          /\ i < j
          /\ l_rows[i].outcome = "dropped"
          /\ l_rows[j].outcome = "committed"
          /\ \E t \in l_rows[i].touched :
                /\ db_committed[t] # <<>>
                /\ db_seq[t] > Len(db_committed[t])

\* C18: the rows before the current one all have their outcome and the rows
\* after it have not been started; a step settles or starts only the current
\* row, and an outcome once set stays; the tables an attempt has visited
\* are the creation order up to the table it has reached, the whole order
\* when the attempt commits.
C18_LoaderOrdering ==
    /\ [](\A i \in 1..Len(l_rows) :
             /\ i < l_idx => l_rows[i].outcome \in {"committed", "dropped"}
             /\ i >= l_idx => l_rows[i].outcome = ""
             /\ i > l_idx => l_rows[i].begun = 0 /\ l_rows[i].errors = <<>>)
    /\ [][\A i \in 1..Len(l_rows) :
              l_rows'[i] # l_rows[i] => i = l_idx /\ l_rows[i].outcome = ""]_vars
    /\ [](/\ Len(l_visited) <= Len(l_cfg.table_order)
          /\ l_visited = SubSeq(l_cfg.table_order, 1, Len(l_visited))
          /\ l_pc = "tables" => Len(l_visited) = l_ti - 1
          /\ l_pc = "except" => Len(l_visited) = l_ti
          /\ l_pc = "commit" => l_visited = l_cfg.table_order)
    /\ [][l_pc = "commit" =>
              l_rows'[l_idx].outcome = "committed" /\ l_idx' = l_idx + 1]_vars

\* the second row, in its second attempt, has visited two tables after the
\* first row was settled
C18_Witness ==
    /\ l_idx = 2
    /\ l_attempt >= 1
    /\ Len(l_visited) >= 2
    /\ l_rows[1].outcome # ""

\* C19: never more than one transaction is open; one is open exactly while
\* an attempt runs, from its begin to its commit or rollback; begin happens
\* only with none open, every step that leaves an attempt ends its
\* transaction by one commit or one rollback, whichever way the attempt went,
\* and none is open once the loader has finished.
C19_OneTransaction ==
    /\ [](txn_open \in {0, 1})
    /\ [](txn_open = 1 <=> l_pc \in {"tables", "commit", "except"})
    /\ [](l_pc \in {"begin", "done"} => txn_open = 0)
    /\ [][txn_open' > txn_open => l_pc = "begin" /\ txn_open = 0 /\ txn_open' = 1]_vars
    /\ [][(l_pc \in {"commit", "except"}) =>
              (/\ txn_open = 1 /\ txn_open' = 0
               /\ l_last'.how = IF l_pc = "commit" THEN "commit" ELSE "rollback"
               /\ l_pc' \in {"begin", "done"})]_vars
    /\ [][txn_open' < txn_open => l_pc \in {"commit", "except"}]_vars

\* the loader has finished after a row that took each way out of an attempt:
\* a retry and exhausted retries for one row, a commit for the other
C19_Witness ==
    /\ l_pc = "done"
    /\ txn_open = 0
    /\ \E i, j \in 1..Len(l_rows) :
          /\ l_rows[i].outcome = "dropped" /\ l_rows[i].begun = 1 + max_retries
          /\ l_rows[j].outcome = "committed"

\* what the source row gives for a database column
SourceValue(cfg, row, name) ==
    IF MapGet(cfg, name) \in DOMAIN row THEN row[MapGet(cfg, name)] ELSE None

\* C20: when an attempt has inserted a row into a table and later inserts a
\* row into a table with a foreign key to it for which the source row gives no
\* value, the foreign key holds the primary key of the row inserted first,
\* whether or not the parent has a unique column in the source.
C20_NewKeyReachesDependents ==
    \A k1, k2 \in 1..Len(l_log) :
        LET p == l_log[k1]
            e == l_log[k2]
        IN  (/\ k1 < k2
             /\ p.idx = e.idx /\ p.attempt = e.attempt
             /\ p.ok /\ e.ok) =>
                \A j \in 1..Len(l_cfg.schema[e.table]) :
                    LET c == l_cfg.schema[e.table][j]
                    IN  (/\ c.fk = p.table
                         /\ SourceValue(l_cfg, dataframe[e.idx], c.name) = None) =>
                            e.row[c.name] = p.row[pk_cols(l_cfg, p.table)[1].name]

(***************************************************************************)
(* Properties of the key resolution of the loader.                         *)
(***************************************************************************)
\* the foreign-key columns of the table the attempt is about to process
\* that the source gives no value for
OpenForeignKeys ==
    IF l_pc = "tables"
    THEN LET t == LoopTable(l_cfg.table_order, l_ti)
             data == BuildInsertData(l_cfg, Ctx, t)
         IN  {j \in 1..Len(l_cfg.schema[t]) :
                 LET c == l_cfg.schema[t][j]
                 IN  /\ c.fk # ""
                     /\ c.name \in DOMAIN data
                     /\ data[c.name] = None}
    ELSE {}

\* the source row of the attempt has a value for the parent's primary key
SuppliesParentPk(parent) ==
    /\ Len(pk_cols(l_cfg, parent)) = 1
    /\ MapGet(l_cfg, pk_cols(l_cfg, parent)[1].name) \in l_cfg.columns
    /\ RowValue(Ctx, MapGet(l_cfg, pk_cols(l_cfg, parent)[1].name))
           \notin {None, KeyErrorValue}

\* C21: the parent of an open foreign key is looked up by its primary key
\* whenever the row supplies a value for it, whatever the value, and
\* otherwise by its first unique column with a non-null value in the row.
C21_ParentKeyPriority ==
    \A j \in OpenForeignKeys :
        LET parent == l_cfg.schema[LoopTable(l_cfg.table_order, l_ti)][j].fk
            m == ParentMatch(l_cfg, Ctx, parent)
            nonnull == SelectSeq(unique_cols_in_csv(l_cfg, parent),
                           LAMBDA u : RowValue(Ctx, MapGet(l_cfg, u.name))
                                         \notin {None, KeyErrorValue})
        IN  /\ SuppliesParentPk(parent) =>
                  /\ m.by = pk_cols(l_cfg, parent)[1].name
                  /\ m.value = RowValue(Ctx, MapGet(l_cfg, m.by))
            /\ (~SuppliesParentPk(parent) /\ nonnull # <<>> /\ ~HasKeyError(Ctx.cleaned_row)) =>
                  /\ m.by = nonnull[1].name
                  /\ m.value = RowValue(Ctx, MapGet(l_cfg, m.by))

\* the value the row of the attempt supplies for a column of the table, None
\* when the source has no field for it
Supplied(name) ==
    IF MapGet(l_cfg, name) \in l_cfg.columns THEN RowValue(Ctx, MapGet(l_cfg, name))
    ELSE None

\* the key the table's own row is matched on: the supplied primary-key value,
\* or else the first single-column unique column with a non-null value
OwnKey(t) ==
    LET pk == pk_cols(l_cfg, t)
        uniq == SelectSeq(unique_cols_in_csv(l_cfg, t), LAMBDA u : Supplied(u.name) # None)
    IN  IF Len(pk) = 1 /\ Supplied(pk[1].name) # None
        THEN [by |-> pk[1].name, value |-> Supplied(pk[1].name)]
        ELSE IF uniq # <<>>
        THEN [by |-> uniq[1].name, value |-> Supplied(uniq[1].name)]
        ELSE [by |-> "", value |-> None]

\* C22: a table step that the database does not refuse leaves the table as
\* it is when a row with the table's key already exists, and otherwise adds
\* exactly one row to it; it never ends in another error.  No table holds
\* two rows with the same value in a single-column unique column.
C22_OwnRowReuse ==
    /\ [][(l_pc = "tables" /\ l_exc'.kind \notin DataOrIntegrity) =>
              LET t == LoopTable(l_cfg.table_order, l_ti)
                  k == OwnKey(t)
              IN  /\ l_exc' = NoExc
                  /\ Len(db'[t]) = Len(db[t]) +
                        (IF k.by # "" /\ FirstMatch(db[t], k.by, k.value) # 0 THEN 0 ELSE 1)
                  /\ IsPrefixSeq(db[t], db'[t])]_vars
    /\ [](\A t \in DOMAIN db : \A i \in 1..Len(l_cfg.schema[t]) :
             LET c == l_cfg.schema[t][i]
             IN  c.unique =>
                    \A x, y \in 1..Len(db[t]) :
                        (x # y /\ db[t][x][c.name] # None) =>
                            db[t][x][c.name] # db[t][y][c.name])

(***************************************************************************)
(* Properties of the graph builder and of the statement analysis, stated   *)
(* on the statements themselves.                                           *)
(***************************************************************************)
\* the statement has a foreign-key constraint that references table p
References(create_stmt, p) ==
    \E i \in 1..Len(create_stmt.tableElts) :
        LET e == create_stmt.tableElts[i]
        IN  \/ e.node = "Constraint" /\ e.contype = "CONSTR_FOREIGN" /\ e.pktable = p
            \/ /\ e.node = "ColumnDef"
               /\ \E j \in 1..Len(e.constraints) :
                     e.constraints[j].contype = "CONSTR_FOREIGN"
                     /\ e.constraints[j].pktable = p

DefinedTables == {g_queries[i].relname : i \in 1..Len(g_queries)}

ReferencedTables == {p \in NameSet : \E i \in 1..Len(g_queries) : References(g_queries[i], p)}

GraphAsStated(built) ==
    /\ DOMAIN built.dependency_graph = DefinedTables \cup ReferencedTables
    /\ DOMAIN built.tables = DefinedTables
    /\ \A p \in DOMAIN built.dependency_graph :
          Range(built.dependency_graph[p]) =
              {g_queries[i].relname : i \in {k \in 1..Len(g_queries) :
                                                References(g_queries[k], p)}}

\* C23: the graph has a node for every table a statement defines or
\* references, the children of a node are exactly the tables whose
\* statements reference it (none for a table nobody references), and the
\* call repeated with the same statements returns the same graph and the
\* same registry.
C23_GraphBuilder ==
    /\ (g_pc \in {"rebuild", "done"} => GraphAsStated(g_first))
    /\ (g_pc = "done" => GraphAsStated(g_second) /\ g_second = g_first)

\* the two registries have the same entries, the foreign keys of an entry
\* compared as sets
SameUpToOrder(t1, t2) ==
    /\ DOMAIN t1 = DOMAIN t2
    /\ \A n \in DOMAIN t1 :
          /\ t1[n].name = t2[n].name
          /\ t1[n].query = t2[n].query
          /\ t1[n].columns = t2[n].columns
          /\ Len(t1[n].foreign_keys) = Len(t2[n].foreign_keys)
          /\ Range(t1[n].foreign_keys) = Range(t2[n].foreign_keys)

\* C23 as amended: as C23, but the registry returned by the repeated call is
\* the same up to the order in which an entry lists its foreign-key tables.
C23_GraphBuilderUpToOrder ==
    /\ (g_pc \in {"rebuild", "done"} => GraphAsStated(g_first))
    /\ (g_pc = "done" =>
           /\ GraphAsStated(g_second)
           /\ g_second.dependency_graph = g_first.dependency_graph
           /\ SameUpToOrder(g_first.tables, g_second.tables))

\* the call was repeated for statements with a table that is only
\* referenced and a table that nobody references, and the two registries
\* list the foreign keys of a table in different orders
C23_Witness ==
    /\ g_pc = "done"
    /\ ReferencedTables \ DefinedTables # {}
    /\ \E n \in DOMAIN g_first.dependency_graph : g_first.dependency_graph[n] = <<>>
    /\ \E n \in DOMAIN g_first.tables :
          g_first.tables[n].foreign_keys # g_second.tables[n].foreign_keys

\* the statement of g_queries that the registry entry of table n comes from
LastStatementOf(n) ==
    g_queries[CHOOSE i \in 1..Len(g_queries) :
                 /\ g_queries[i].relname = n
                 /\ \A j \in (i + 1)..Len(g_queries) : g_queries[j].relname # n]

\* the names written as column definitions, in the order written
DeclaredColumns(create_stmt) ==
    LET F[i \in 0..Len(create_stmt.tableElts)] ==
            IF i = 0 THEN <<>>
            ELSE IF create_stmt.tableElts[i].node = "ColumnDef"
            THEN Append(F[i - 1], create_stmt.tableElts[i].colname)
            ELSE F[i - 1]
    IN  F[Len(create_stmt.tableElts)]

\* the column names that occur in the key list of a table-level constraint
ConstraintColumns(create_stmt) ==
    UNION {Range(create_stmt.tableElts[i].keys) : i \in 1..Len(create_stmt.tableElts)}

\* C24: the entry parse_sql_query returns for a statement has the
\* statement's table name, as columns the declared column definitions and
\* nothing else (no column that only a constraint mentions), and as foreign
\* keys every table referenced by a column-level or a table-level
\* foreign-key constraint, each once.
C24_ParseSqlQuery ==
    g_pc \in {"rebuild", "done"} =>
        \A n \in DOMAIN g_first.tables :
            LET info == g_first.tables[n]
                stmt == LastStatementOf(n)
            IN  /\ info.name = stmt.relname
                /\ info.query = stmt
                /\ info.columns = DeclaredColumns(stmt)
                /\ \A c \in ConstraintColumns(stmt) \ Range(DeclaredColumns(stmt)) :
                      c \notin Range(info.columns)
                /\ Range(info.foreign_keys) = {p \in NameSet : References(stmt, p)}
                /\ Len(info.foreign_keys) = Cardinality(Range(info.foreign_keys))

\* a statement was analysed that references one table by a column-level
\* and by two table-level constraints, and one whose CHECK constraint
\* mentions a column that is not declared
C24_Witness ==
    /\ g_pc \in {"rebuild", "done"}
    /\ "c" \in DOMAIN g_first.tables
    /\ g_first.tables["c"].query = StmtCofAA
    /\ g_first.tables["c"].foreign_keys = <<"a">>
    /\ "a" \in DOMAIN g_first.tables
    /\ "age" \notin Range(g_first.tables["a"].columns)

(***************************************************************************)
(* Properties of run_pipeline.                                             *)
(***************************************************************************)
\* C25: when execute_queries sends the statement of a table, the statement
\* of every other table it references, if the attempt has one, has been sent
\* before it.
C25_DdlOrderRespectsReferences ==
    \A i \in 1..Len(p_ddl_log) :
        p_ddl_log[i] \in DOMAIN p_tables =>
            \A parent \in (p_tables[p_ddl_log[i]].foreign_keys \cap DOMAIN p_tables)
                               \ {p_ddl_log[i]} :
                \E j \in 1..(i - 1) : p_ddl_log[j] = parent

\* C26: the order handed to execute_queries names only tables of the
\* registry, and run_pipeline never ends by the KeyError of a registry
\* lookup.
C26_OrderWithinRegistry ==
    /\ (p_pc = "execute" => Range(p_order) \subseteq DOMAIN p_tables)
    /\ p_error.kind # "KeyError"

\* the stage that follows a stage of an attempt when nothing fails
NextStage(pc) ==
    CASE pc = "generate" -> {"llm_validate", "schedule"}
      [] pc = "llm_validate" -> {"schedule"}
      [] pc = "schedule" -> {"execute"}
      [] pc = "execute" -> {"validate_content"}
      [] pc = "validate_content" -> {"load"}
      [] pc = "load" -> {"loading"}
      [] OTHER -> {}

\* C27: the attempt counter stays below 2; the LLM validation runs on the
\* first attempt only; validate_content is reached only from a schema
\* execution that succeeded, and push_data_in_db only from a validate_content
\* that passed in an attempt the LLM validation did not veto; once
\* run_pipeline has raised nothing more happens; every step leads to the next
\* stage of the attempt, to the next attempt or to the raise, and the
\* validations and the call of the loader always have a step to take.
C27_LoadOnlyAfterValidAttempt ==
    /\ [](attempt < max_attempts)
    /\ [](p_pc = "llm_validate" => attempt = 0)
    /\ [](p_pc \in {"load", "loading"} => final_validation_passed /\ llm_can_continue)
    /\ [](p_pc \notin {"load", "loading"} => ~final_validation_passed)
    /\ [][(p_pc' = "validate_content" /\ p_pc # "validate_content") =>
              (/\ p_pc = "execute"
               /\ execute_queries(p_db, p_order, p_tables).value.success
               /\ Range(p_order) \subseteq p_db')]_vars
    /\ [][(p_pc' = "load" /\ p_pc # "load") =>
              (p_pc = "validate_content" /\ llm_can_continue /\ attempt' = attempt)]_vars
    /\ [][(p_pc' = "loading" /\ p_pc # "loading") => p_pc = "load"]_vars
    /\ [][p_pc # "raised" /\ p_pc # "loading"]_vars
    /\ [][\/ p_pc' \in NextStage(p_pc) /\ attempt' = attempt
          \/ p_pc' = "generate" /\ attempt' = attempt + 1 /\ ~final_validation_passed'
          \/ p_pc' = "raised" /\ attempt' = attempt /\ ~final_validation_passed']_vars
    /\ [](p_pc \in {"llm_validate", "validate_content", "load"} => ENABLED PipeNext)

\* the loader was started in the second attempt, after a first attempt that
\* created its tables and failed
C27_Witness ==
    /\ p_pc = "loading"
    /\ attempt = 1
    /\ feedback_for_rerun
    /\ p_db # {}

\* C28: the database the second attempt's execute_queries starts from holds
\* none of the tables the first attempt committed, and no statement of the
\* second attempt is refused because its table already exists.
C28_SecondAttemptSeesCleanDatabase ==
    (p_pc = "execute" /\ attempt = 1) =>
        /\ p_db = {}
        /\ execute_queries(p_db, p_order, p_tables).run.message # "relation already exists"

(***************************************************************************)
(* Candidate values of a retry.                                            *)
(***************************************************************************)
\* the context of a first attempt made on the cleaned row
AsFirstAttempt == [Ctx EXCEPT !.row_data = cleaned_row, !.cleaned_row = <<>>]

\* C29: in a retry the candidate values of the table about to be processed
\* are those a first attempt builds from the cleaned row: a column whose
\* source field is absent gets null, and no subscript fails.
C29_RetryBuildsAsFirstAttempt ==
    (l_pc = "tables" /\ l_attempt >= 1) =>
        LET t == LoopTable(l_cfg.table_order, l_ti)
        IN  /\ BuildInsertData(l_cfg, Ctx, t) = BuildInsertData(l_cfg, AsFirstAttempt, t)
            /\ ~HasKeyError(BuildInsertData(l_cfg, Ctx, t))

(***************************************************************************)
(* In-degrees of the scheduler's graph.                                    *)
(***************************************************************************)
\* the tables a table is declared to depend on, each counted once
DistinctParents(traits_list, n) ==
    {e[1] : e \in {d \in DeclaredEdges(traits_list) : d[2] = n}}

\* a dependency is declared more than once
DeclaredTwice(traits_list) ==
    Len(DependencyPairs(traits_list)) > Cardinality(DeclaredEdges(traits_list))

\* C30: when the graph is built, the in-degree of every table is the number
\* of its distinct parents, so an acyclic input with repeated declarations is
\* ordered completely; two empty inputs give the empty order, and empty
\* traits with a non-empty declared list give the error.
C30_InDegreeCountsDistinctParents ==
    sched_pc = "done" =>
        /\ (table_traits_list # <<>> /\ UniverseMatches) =>
              LET nodes == all_potential_nodes(table_traits_list)
                  g == BuildGraph(EmptyGraph(nodes), DependencyPairs(table_traits_list))
              IN  /\ \A n \in nodes :
                        g.in_degree[n] = Cardinality(DistinctParents(table_traits_list, n))
                  /\ ~HasCycle(table_traits_list) =>
                        /\ sched_result.kind = "order"
                        /\ Range(sched_result.order) = nodes
        /\ (table_traits_list = <<>> /\ initial_table_list = <<>>) =>
              sched_result = [NoResult EXCEPT !.kind = "order"]
        /\ (table_traits_list = <<>> /\ initial_table_list # <<>>) =>
              sched_result.kind = "empty_traits_error"

\* an acyclic input that declares the same dependency twice was ordered
C30_Witness ==
    /\ sched_pc = "done"
    /\ UniverseMatches
    /\ ~HasCycle(table_traits_list)
    /\ DeclaredTwice(table_traits_list)
    /\ sched_result.kind = "order"
    /\ Len(sched_result.order) = 2

====
